---- MODULE Spec2Model ----
(***************************************************************************)
(* Conversion orchestration of the accent-point API:                       *)
(*   app/services/voice_converter.py  VoiceConverter                      *)
(*   app/services/batch_processor.py  BatchProcessor                      *)
(*   app/api/voice_conversion.py      convert_voice (single endpoint)     *)
(*   app/services/audio_processor.py  AudioProcessor (pipeline operations) *)
(* Durations are counted in tenths of a second.  A conversion call is      *)
(* identified by its caller: the batch job index, or 0 for the single      *)
(* endpoint and for a direct call of VoiceConverter.convert_voice.         *)
(***************************************************************************)
EXTENDS Integers, Sequences, FiniteSets, TLC

\* ------------------------------------------------------------------ bounds
NumFiles == 3
MaxFrames == 8
MaxConcurrentMax == 3

\* ------------------------------------------------------- program constants
MIN_DURATION == 10
MIN_VOICE_DURATION == 5
MIN_REFERENCE_DURATION == 5
MAX_WORKERS == 2

Callers == 0 .. (NumFiles - 1)

\* Durations of the files handed to VoiceConverter.convert_voice.
InputDurations == {0, 8, 10, 70}
VoiceDurations == {0, 4, 5}
ReferenceDurations == {4, 5, 9, 10}

\* What the black-box engine (tune_one) does when it is run.
EngineBehaviours == {"ok", "no_output", "raise", "raise_after_output", "import_error"}

AudioEnvs ==
    { a \in [inDur : InputDurations, voiceDur : VoiceDurations,
             refDur : ReferenceDurations, decodable : BOOLEAN,
             makedirs_fails : BOOLEAN, engine : EngineBehaviours] :
        a.voiceDur <= a.inDur }

NoAudio ==
    [inDur |-> 70, voiceDur |-> 5, refDur |-> 10, decodable |-> TRUE,
     makedirs_fails |-> FALSE, engine |-> "ok"]

TempInput(c) == <<c, "temp_input">>
TempRef(c) == <<c, "temp_ref">>
OutputFile(c) == <<c, "output">>

VARIABLES
    openvoice_installed,   \* whether `import openvoice_cli.__main__` succeeds
    librosa_installed,     \* whether `import librosa` succeeds
    openvoice_available,   \* VoiceConverter._openvoice_available: "None" | "True" | "False"
    probes,                \* number of import probes made by _check_openvoice_availability
    disk,                  \* files that exist on the local filesystem
    audio,                 \* per call: what the files given to convert_voice hold
    vpc,                   \* per call: position inside VoiceConverter.convert_voice
    raised,                \* per call: type of the exception raised inside convert_voice
    engineExc,             \* per call: exception set on the executor future
    outcome,               \* per call: how convert_voice was left
    log,                   \* per call: the steps performed, in order
    execQueue,             \* ThreadPoolExecutor work queue
    running,               \* calls executing on a worker thread
    bpc,                   \* position inside process_batch_conversion
    max_concurrent,        \* the max_concurrent argument of the batch
    reference_data,        \* the shared reference buffer (its duration; 0 = not loaded)
    refLoads,              \* how many times the reference was read and decoded
    sem,                   \* asyncio.Semaphore._value
    waiters,               \* asyncio.Semaphore._waiters (FIFO)
    jpc,                   \* per job: position inside _process_single_conversion
    jfault,                \* per job: the step of the job body that raised ("none")
    jres,                  \* per job: the value the job coroutine returned
    finished,              \* job indexes in the order the jobs finished
    processed_results,     \* the list process_batch_conversion returns
    spc,                   \* position inside the single-conversion endpoint
    slocals,               \* the temp path variables the endpoint has assigned
    db_record,             \* whether the endpoint created a database record
    sfault,                \* the step of the endpoint that raised ("none")
    sresult,               \* how the endpoint request ended
    ref_prepared,          \* the reference buffer the endpoint prepared for the engine
    pipeline,              \* per buffer: the processing steps the endpoint applied to it
    aop,                   \* the AudioProcessor / analyzer operation that was applied
    ain,                   \* the buffer and environment the operation was applied to
    aout,                  \* what the operation returned or raised
    endpoint,              \* the HTTP endpoint that was called ("none" before)
    request,               \* the files of the request
    response               \* how the endpoint treated the request at its boundary

convVars == <<openvoice_installed, librosa_installed, openvoice_available, probes,
              disk, audio, vpc, raised, engineExc, outcome, log, execQueue, running>>

batchVars == <<bpc, max_concurrent, reference_data, refLoads, sem, waiters,
               jpc, jfault, jres, finished, processed_results>>

singleVars == <<spc, slocals, db_record, sfault, sresult, ref_prepared, pipeline>>

audioVars == <<aop, ain, aout>>
entryVars == <<endpoint, request, response>>

vars == <<convVars, batchVars, singleVars, audioVars, entryVars>>

\* --------------------------------------------------------- VoiceConverter
\* _check_openvoice_availability: the cached flag after the call.
CheckedAvailability(cache, installed) ==
    IF cache # "None" THEN cache
    ELSE IF installed THEN "True" ELSE "False"

\* Number of import probes a call of _check_openvoice_availability makes.
ProbeCountUncached(cache) == 1
ProbeCount(cache) == IF cache # "None" THEN 0 ELSE 1

\* _analyze_voice_content result, as the summed voice duration.
VoiceDuration(a) == a.voiceDur

\* _validate_audio_length, librosa branch: the exception raised in the try
\* body ("none" when validation passes).
LibrosaValidation(a) ==
    IF ~a.decodable THEN "Exception"
    ELSE IF a.inDur = 0 THEN "ZeroDivisionError"
    ELSE IF a.inDur < MIN_DURATION THEN "ConversionError"
    ELSE IF VoiceDuration(a) < MIN_VOICE_DURATION THEN "ConversionError"
    ELSE IF a.refDur < MIN_REFERENCE_DURATION THEN "ConversionError"
    ELSE "none"

\* _validate_audio_length, wave-module fallback: the exception raised inside
\* the inner try body.
WaveValidation(a) ==
    IF ~a.decodable THEN "Exception"
    ELSE IF a.inDur < MIN_DURATION THEN "ConversionError"
    ELSE IF a.refDur < MIN_DURATION THEN "ConversionError"
    ELSE "none"

\* The inner `except Exception as e: logger.warning(...)` of the fallback.
WaveExcept(e) == "none"

\* The outer `except Exception as e: raise ConversionError(...)`.
ValidationExcept(e) == IF e = "none" THEN "none" ELSE "ConversionError"

\* A message is modelled by the quantities its text states: <<"s", h>> is a
\* duration of h hundredths of a second ("{x:.2f}s", "{min_duration}s" or a
\* literal such as "0.5s" or "1 second"), <<"%", p>> a percentage.
Stated(t) == <<"s", t * 10>>

\* The message of the exception raised in the librosa try body (lines 59-88);
\* a decoding error or the division by a zero input_duration at line 65
\* carries the library's own text.
LibrosaValidationMessage(a) ==
    IF ~a.decodable THEN {}
    ELSE IF a.inDur = 0 THEN {}
    ELSE IF a.inDur < MIN_DURATION THEN {Stated(a.inDur), Stated(MIN_DURATION)}
    ELSE IF VoiceDuration(a) < MIN_VOICE_DURATION
        THEN {Stated(VoiceDuration(a)), Stated(a.inDur),
              <<"%", (VoiceDuration(a) * 100) \div a.inDur>>, Stated(10)}
    ELSE IF a.refDur < MIN_REFERENCE_DURATION THEN {Stated(a.refDur), Stated(5)}
    ELSE {}

\* f"Audio validation failed: {str(e)}" (line 127) and f"Voice conversion
\* failed: {str(e)}" (line 236): the inner text is kept whole.
WrappedMessage(m) == m

\* The message of the ConversionError that leaves convert_voice when
\* _validate_audio_length raised.
ValidationFailureMessage(librosa, a) ==
    IF librosa THEN WrappedMessage(WrappedMessage(LibrosaValidationMessage(a)))
    ELSE {}

\* _validate_audio_length as a whole: the exception that leaves it.
ValidateAudioLength(librosa, a) ==
    IF librosa THEN ValidationExcept(LibrosaValidation(a))
    ELSE WaveExcept(WaveValidation(a))

\* `except Exception as e: raise ConversionError(...)` closing convert_voice.
ConvertVoiceExceptReraise(e) == e
ConvertVoiceExcept(e) == IF e = "none" THEN "none" ELSE "ConversionError"

\* The three except clauses of _run_openvoice_conversion.
RunOpenvoiceExcept(e) == IF e = "none" THEN "none" ELSE "ConversionError"

\* What the engine raises, by its behaviour.
EngineRaises(b) ==
    CASE b = "import_error" -> "ImportError"
      [] b = "raise" -> "RuntimeError"
      [] b = "raise_after_output" -> "FileNotFoundError"
      [] OTHER -> "none"

EngineWritesOutput(b) == b \in {"ok", "raise_after_output"}

\* convert_voice up to the executor hand-off: the steps it goes through and
\* the exception raised on the way ("none" when the engine call is submitted).
ConvertVoiceEntryValidatingLate(c, cache, files, librosa, a) ==
    IF cache # "True"
        THEN [steps |-> <<"check_available">>, exc |-> "ConversionError"]
    ELSE IF TempInput(c) \notin files \/ TempRef(c) \notin files
        THEN [steps |-> <<"check_available", "check_files">>, exc |-> "ConversionError"]
    ELSE IF a.makedirs_fails
        THEN [steps |-> <<"check_available", "check_files", "makedirs">>, exc |-> "OSError"]
    ELSE [steps |-> <<"check_available", "check_files", "makedirs", "submit", "validate">>,
          exc |-> "none"]

ConvertVoiceEntry(c, cache, files, librosa, a) ==
    IF cache # "True"
        THEN [steps |-> <<"check_available">>, exc |-> "ConversionError"]
    ELSE IF TempInput(c) \notin files \/ TempRef(c) \notin files
        THEN [steps |-> <<"check_available", "check_files">>, exc |-> "ConversionError"]
    ELSE IF ValidateAudioLength(librosa, a) # "none"
        THEN [steps |-> <<"check_available", "check_files", "validate">>,
              exc |-> ValidateAudioLength(librosa, a)]
    ELSE IF a.makedirs_fails
        THEN [steps |-> <<"check_available", "check_files", "validate", "makedirs">>,
              exc |-> "OSError"]
    ELSE [steps |-> <<"check_available", "check_files", "validate", "makedirs", "submit">>,
          exc |-> "none"]

\* The result of entering convert_voice on the files `files` holding `a`.
EntryResult(c, files, a) ==
    ConvertVoiceEntry(c, CheckedAvailability(openvoice_available, openvoice_installed),
                      files, librosa_installed, a)

\* The effect of convert_voice lines 197-226 for caller c, whose own steps
\* `before` precede it in the same run of the event loop.
ConvertVoiceCallOn(c, files, a, before) ==
    LET r == EntryResult(c, files, a)
    IN /\ openvoice_available' = CheckedAvailability(openvoice_available, openvoice_installed)
       /\ probes' = probes + ProbeCount(openvoice_available)
       /\ log' = [log EXCEPT ![c] = @ \o before \o r.steps]
       /\ IF r.exc # "none"
             THEN /\ raised' = [raised EXCEPT ![c] = r.exc]
                  /\ outcome' = [outcome EXCEPT ![c] = ConvertVoiceExcept(r.exc)]
                  /\ vpc' = [vpc EXCEPT ![c] = "done"]
                  /\ UNCHANGED execQueue
             ELSE /\ execQueue' = Append(execQueue, c)
                  /\ vpc' = [vpc EXCEPT ![c] = "queued"]
                  /\ UNCHANGED <<raised, outcome>>

\* convert_voice is called directly on files already on disk.
ConvertVoiceCall(c) ==
    /\ vpc[c] = "called"
    /\ ConvertVoiceCallOn(c, disk, audio[c], <<>>)
    /\ UNCHANGED <<openvoice_installed, librosa_installed, disk, audio, engineExc, running>>
    /\ UNCHANGED <<batchVars, singleVars>>
    /\ UNCHANGED <<audioVars, entryVars>>

\* ThreadPoolExecutor(max_workers=2): a queued call is taken when fewer
\* than max_workers worker threads are busy.
WorkerFreeUnbounded(busy) == TRUE
WorkerFree(busy) == Cardinality(busy) < MAX_WORKERS

\* A worker thread of the pool takes the next queued engine call.
WorkerStart(c) ==
    /\ execQueue # <<>>
    /\ Head(execQueue) = c
    /\ WorkerFree(running)
    /\ execQueue' = Tail(execQueue)
    /\ running' = running \cup {c}
    /\ vpc' = [vpc EXCEPT ![c] = "running"]
    /\ log' = [log EXCEPT ![c] = Append(@, "engine")]
    /\ UNCHANGED <<openvoice_installed, librosa_installed, openvoice_available, probes,
                   disk, audio, raised, engineExc, outcome>>
    /\ UNCHANGED <<batchVars, singleVars>>
    /\ UNCHANGED <<audioVars, entryVars>>

\* _run_openvoice_conversion finishes on its worker thread.
WorkerFinish(c) ==
    /\ c \in running
    /\ running' = running \ {c}
    /\ disk' = IF EngineWritesOutput(audio[c].engine) THEN disk \cup {OutputFile(c)} ELSE disk
    /\ raised' = [raised EXCEPT ![c] = EngineRaises(audio[c].engine)]
    /\ engineExc' = [engineExc EXCEPT ![c] = RunOpenvoiceExcept(EngineRaises(audio[c].engine))]
    /\ vpc' = [vpc EXCEPT ![c] = "engine_done"]
    /\ UNCHANGED <<openvoice_installed, librosa_installed, openvoice_available, probes,
                   audio, outcome, log, execQueue>>
    /\ UNCHANGED <<batchVars, singleVars>>
    /\ UNCHANGED <<audioVars, entryVars>>

\* How convert_voice is left once the executor future of c has completed
\* (lines 228-236): the exception raised after the await and the outcome.
ResumeRaisesUnverified(c, files) == engineExc[c]
ResumeRaises(c, files) ==
    IF engineExc[c] # "none" THEN engineExc[c]
    ELSE IF OutputFile(c) \notin files THEN "ConversionError"
    ELSE "none"

ResumeOutcome(c, files) ==
    IF ResumeRaises(c, files) = "none" THEN "returned"
    ELSE ConvertVoiceExcept(ResumeRaises(c, files))

\* The effect of convert_voice lines 228-236 for caller c.
ConvertVoiceResumeOn(c, files) ==
    /\ vpc' = [vpc EXCEPT ![c] = "done"]
    /\ outcome' = [outcome EXCEPT ![c] = ResumeOutcome(c, files)]
    /\ log' = [log EXCEPT ![c] = IF engineExc[c] = "none" THEN Append(@, "verify") ELSE @]
    /\ raised' = [raised EXCEPT ![c] =
                     IF engineExc[c] = "none" /\ OutputFile(c) \notin files
                         THEN "ConversionError" ELSE @]

\* A direct call of convert_voice resumes after the engine call.
ConvertVoiceResume(c) ==
    /\ vpc[c] = "engine_done"
    /\ ConvertVoiceResumeOn(c, disk)
    /\ UNCHANGED <<openvoice_installed, librosa_installed, openvoice_available, probes,
                   disk, audio, engineExc, execQueue, running>>
    /\ UNCHANGED <<batchVars, singleVars>>
    /\ UNCHANGED <<audioVars, entryVars>>

\* --------------------------------------------------------- BatchProcessor
Jobs == 0 .. (NumFiles - 1)

\* input_files[i].filename
Filenames == <<"a.wav", "b.wav">>
Filename(i) == Filenames[(i % 2) + 1]

\* Durations of the decoded shared reference.
BatchReferenceDurations == {10}

\* What a batch job's input holds and how the engine behaves on it.
BatchAudioEnvs(ref) ==
    { a \in AudioEnvs :
        /\ a.inDur \in {8, 70}
        /\ (a.inDur = 8 => a.engine = "ok")
        /\ a.voiceDur = 5
        /\ a.refDur = ref
        /\ a.decodable
        /\ ~a.makedirs_fails
        /\ a.engine \in {"ok", "raise"} }

NoResult == [file_index |-> -1, filename |-> "", status |-> "none"]

\* The dict returned at the end of the try body (lines 147-154).
CompletedResult(i) == [file_index |-> i, filename |-> Filename(i), status |-> "completed"]

\* The dict returned by `except Exception as e` (lines 156-163).
FailedResultAsCompleted(i) == [file_index |-> i, filename |-> Filename(i), status |-> "completed"]
FailedResult(i) == [file_index |-> i, filename |-> Filename(i), status |-> "failed"]

\* Semaphore.acquire taken without waiting (`async with semaphore`, line 102).
AcquireUngated(value, ws) == TRUE
CanAcquire(value, ws) == value > 0 /\ ws = <<>>

\* asyncio.gather(*tasks, return_exceptions=True): results in task order.
GatherInCompletionOrder(res, order) == [k \in 1 .. Len(order) |-> res[order[k]]]
Gather(res, order) == [k \in 1 .. NumFiles |-> res[k - 1]]

\* The loop over the gathered results (lines 77-87).
ProcessResultsDroppingFailed(results) == SelectSeq(results, LAMBDA r : r.status # "failed")
ProcessResults(results) ==
    [k \in 1 .. Len(results) |->
        IF results[k].status = "exception"
            THEN [file_index |-> k - 1, filename |-> Filename(k - 1), status |-> "failed"]
            ELSE results[k]]

BatchIdle ==
    /\ bpc = "idle"
    /\ max_concurrent = 0
    /\ reference_data = 0
    /\ refLoads = 0
    /\ sem = 0
    /\ waiters = <<>>
    /\ jpc = [i \in Jobs |-> "none"]
    /\ jfault = [i \in Jobs |-> "none"]
    /\ jres = [i \in Jobs |-> NoResult]
    /\ finished = <<>>
    /\ processed_results = <<>>

\* A reference buffer: its duration, the voice content in it, and how much of
\* it is silence appended, or signal repeated, by the preparation.
NoReference == [dur |-> 0, voice |-> 0, silence |-> 0, repeated |-> 0]
NoPipeline == [target |-> 0, input |-> <<>>, reference |-> <<>>]

\* No operation of the audio pipeline is being applied on its own.
AudioIdle ==
    /\ aop = "none"
    /\ ain = <<>>
    /\ aout = <<>>

\* No request is at the boundary of an endpoint.
EntryIdle ==
    /\ endpoint = "none"
    /\ request = <<>>
    /\ response = <<>>

\* No single-conversion request is being served.
SingleIdle ==
    /\ spc = "idle"
    /\ slocals = {}
    /\ db_record = FALSE
    /\ sfault = "none"
    /\ sresult = "none"
    /\ ref_prepared = NoReference
    /\ pipeline = NoPipeline

\* Lines 50-59: read, decode, normalize and resample the shared reference.
BatchLoadReference ==
    /\ bpc = "start"
    /\ refLoads' = refLoads + 1
    /\ \/ /\ bpc' = "raised"
          /\ UNCHANGED reference_data
       \/ /\ \E d \in BatchReferenceDurations : reference_data' = d
          /\ bpc' = "ref_loaded"
    /\ UNCHANGED <<max_concurrent, sem, waiters, jpc, jfault, jres, finished, processed_results>>
    /\ UNCHANGED convVars
    /\ UNCHANGED singleVars
    /\ UNCHANGED <<audioVars, entryVars>>

\* Lines 61-74: create the semaphore and the job coroutines, start gather.
BatchStartJobs ==
    /\ bpc = "ref_loaded"
    /\ IF max_concurrent < 0
          THEN /\ bpc' = "raised"
               /\ UNCHANGED <<sem, jpc>>
          ELSE /\ sem' = max_concurrent
               /\ jpc' = [i \in Jobs |-> "created"]
               /\ bpc' = "gather"
    /\ UNCHANGED <<max_concurrent, reference_data, refLoads, waiters, jfault, jres,
                   finished, processed_results>>
    /\ UNCHANGED convVars
    /\ UNCHANGED singleVars
    /\ UNCHANGED <<audioVars, entryVars>>

\* `async with semaphore` (line 102): take a permit or queue up.
JobEnter(i) ==
    /\ jpc[i] = "created"
    /\ IF CanAcquire(sem, waiters)
          THEN /\ sem' = sem - 1
               /\ jpc' = [jpc EXCEPT ![i] = "load"]
               /\ UNCHANGED waiters
          ELSE /\ waiters' = Append(waiters, i)
               /\ jpc' = [jpc EXCEPT ![i] = "waiting"]
               /\ UNCHANGED sem
    /\ UNCHANGED <<bpc, max_concurrent, reference_data, refLoads, jfault, jres,
                   finished, processed_results>>
    /\ UNCHANGED convVars
    /\ UNCHANGED singleVars
    /\ UNCHANGED <<audioVars, entryVars>>

\* A waiting job is woken by a release and takes the permit.
JobWake(i) ==
    /\ jpc[i] = "waiting"
    /\ waiters # <<>>
    /\ Head(waiters) = i
    /\ sem > 0
    /\ sem' = sem - 1
    /\ waiters' = Tail(waiters)
    /\ jpc' = [jpc EXCEPT ![i] = "load"]
    /\ UNCHANGED <<bpc, max_concurrent, reference_data, refLoads, jfault, jres,
                   finished, processed_results>>
    /\ UNCHANGED convVars
    /\ UNCHANGED singleVars
    /\ UNCHANGED <<audioVars, entryVars>>

\* The exit of the `async with semaphore` block, taken by a return and by
\* an exception alike: Semaphore.release() gives the permit back.
ReleaseLeaking(value) == value
Release(value) == value + 1

\* The except clause of the job (lines 156-163) followed by the exit of the
\* `async with` block: the failed dict is returned and the permit released.
JobFail(i, step) ==
    /\ jfault' = [jfault EXCEPT ![i] = step]
    /\ jres' = [jres EXCEPT ![i] = FailedResult(i)]
    /\ jpc' = [jpc EXCEPT ![i] = "done"]
    /\ finished' = Append(finished, i)
    /\ sem' = Release(sem)

\* The steps of the job body that can raise before convert_voice is called.
JobFaults == {"load", "save_input", "save_ref"}

\* The temp files the job has created when `step` raises.
FilesCreatedBefore(i, step) ==
    CASE step = "save_input" -> {TempInput(i)}
      [] step = "save_ref" -> {TempInput(i), TempRef(i)}
      [] OTHER -> {}

\* How often job i reads and decodes the reference upload: lines 124-126
\* write the buffer the job was handed, nothing is loaded.
JobReferenceLoadsPerJob(i) == 1
JobReferenceLoads(i) == 0

\* The caller's buffer after save_audio (lines 79-83 of audio_processor.py):
\* the mono mix is bound to the local name and sf.write only reads.
SaveAudioClearing(buf) == 0
SaveAudioLeaves(buf) == buf

\* Lines 104-138: from the permit to the executor hand-off inside
\* convert_voice, or to the except clause when a step raises on the way.
JobBody(i) ==
    /\ jpc[i] = "load"
    /\ \/ /\ \E step \in JobFaults :
                /\ JobFail(i, step)
                /\ disk' = disk \cup FilesCreatedBefore(i, step)
                /\ refLoads' = IF step = "save_ref" THEN refLoads + JobReferenceLoads(i)
                                ELSE refLoads
                /\ reference_data' = IF step = "save_ref" THEN SaveAudioLeaves(reference_data)
                                      ELSE reference_data
          /\ UNCHANGED <<openvoice_available, probes, audio, vpc, raised, outcome, log,
                         execQueue>>
       \/ \E a \in BatchAudioEnvs(reference_data) :
             /\ disk' = disk \cup {TempInput(i), TempRef(i)}
             /\ refLoads' = refLoads + JobReferenceLoads(i)
             /\ reference_data' = SaveAudioLeaves(reference_data)
             /\ audio' = [audio EXCEPT ![i] = a]
             /\ ConvertVoiceCallOn(i, disk', a, <<"save_input", "save_ref">>)
             /\ IF EntryResult(i, disk', a).exc # "none"
                   THEN JobFail(i, "convert")
                   ELSE /\ jpc' = [jpc EXCEPT ![i] = "convert"]
                        /\ UNCHANGED <<jfault, jres, finished, sem>>
    /\ UNCHANGED <<bpc, max_concurrent, waiters, processed_results>>
    /\ UNCHANGED <<openvoice_installed, librosa_installed, engineExc, running>>
    /\ UNCHANGED singleVars
    /\ UNCHANGED <<audioVars, entryVars>>

\* Lines 228-236 of convert_voice and lines 140-163 of the job: the engine
\* call is over; clean up and return, or go through the except clause.
JobFinish(i) ==
    /\ jpc[i] = "convert"
    /\ vpc[i] = "engine_done"
    /\ ConvertVoiceResumeOn(i, disk)
    /\ IF ResumeOutcome(i, disk) = "returned"
          THEN /\ disk' = disk \ {TempInput(i), TempRef(i)}
               /\ jres' = [jres EXCEPT ![i] = CompletedResult(i)]
               /\ jpc' = [jpc EXCEPT ![i] = "done"]
               /\ finished' = Append(finished, i)
               /\ sem' = Release(sem)
               /\ UNCHANGED jfault
          ELSE /\ JobFail(i, "convert")
               /\ UNCHANGED disk
    /\ UNCHANGED <<bpc, max_concurrent, reference_data, refLoads, waiters, processed_results>>
    /\ UNCHANGED <<openvoice_installed, librosa_installed, openvoice_available, probes,
                   audio, engineExc, execQueue, running>>
    /\ UNCHANGED singleVars
    /\ UNCHANGED <<audioVars, entryVars>>

\* Lines 74-90: gather completes, the results are processed and returned.
BatchReturn ==
    /\ bpc = "gather"
    /\ \A i \in Jobs : jpc[i] = "done"
    /\ processed_results' = ProcessResults(Gather(jres, finished))
    /\ bpc' = "returned"
    /\ UNCHANGED <<max_concurrent, reference_data, refLoads, sem, waiters, jpc, jfault,
                   jres, finished>>
    /\ UNCHANGED convVars
    /\ UNCHANGED singleVars
    /\ UNCHANGED <<audioVars, entryVars>>

InitBatch ==
    /\ openvoice_installed \in BOOLEAN
    /\ librosa_installed \in BOOLEAN
    /\ openvoice_available = "None"
    /\ probes = 0
    /\ disk = {}
    /\ audio = [c \in Callers |-> NoAudio]
    /\ vpc = [c \in Callers |-> "idle"]
    /\ raised = [c \in Callers |-> "none"]
    /\ engineExc = [c \in Callers |-> "none"]
    /\ outcome = [c \in Callers |-> "pending"]
    /\ log = [c \in Callers |-> <<>>]
    /\ execQueue = <<>>
    /\ running = {}
    /\ bpc = "start"
    /\ max_concurrent \in -1 .. MaxConcurrentMax
    /\ reference_data = 0
    /\ refLoads = 0
    /\ sem = 0
    /\ waiters = <<>>
    /\ jpc = [i \in Jobs |-> "none"]
    /\ jfault = [i \in Jobs |-> "none"]
    /\ jres = [i \in Jobs |-> NoResult]
    /\ finished = <<>>
    /\ processed_results = <<>>
    /\ SingleIdle
    /\ AudioIdle
    /\ EntryIdle

NextBatch ==
    \/ BatchLoadReference
    \/ BatchStartJobs
    \/ \E i \in Jobs : JobEnter(i)
    \/ \E i \in Jobs : JobWake(i)
    \/ \E i \in Jobs : JobBody(i)
    \/ \E i \in Jobs : WorkerStart(i)
    \/ \E i \in Jobs : WorkerFinish(i)
    \/ \E i \in Jobs : JobFinish(i)
    \/ BatchReturn

SpecBatch == InitBatch /\ [][NextBatch]_vars

\* The event loop runs every coroutine that is ready and the pool runs
\* every queued call once a worker is free; engine calls terminate.
SpecBatchFair == SpecBatch /\ WF_vars(NextBatch)

\* ------------------------------------------- single-conversion endpoint
\* Durations of the uploaded input and reference, and what trim_silence
\* leaves of a buffer at top_db=30 and at top_db=40.
UploadDurations == {8, 70, 100}
TrimmedDurations == {20, 35, 90}

TRIM_ONLY_ABOVE == 80
TRIM_RETRY_BELOW == 40
TRIM_SKIP_BELOW == 30
OPENVOICE_MIN_DURATION == 60

\* pad_audio_to_minimum, on durations.
PadToMinimum(d, min) == IF d >= min THEN d ELSE min

\* The number of samples in `tenths` tenths of a second at `sr` samples per
\* second (durations themselves are lengths at 10 samples per second).
Samples(tenths, sr) == (tenths * sr) \div 10

\* The sample rates buffers come in, in samples per second.
SampleRates == {20, 40}

\* The conditional-trim step of optimize_for_openvoice (lines 427-450) on a
\* buffer of n samples: t30 and t40 are the lengths trim_silence returns for
\* it at top_db=30 and top_db=40.  The result is the length of trimmed_audio.
ConditionalTrimWithoutSkip(n, sr, t30, t40) ==
    LET first == IF n > Samples(TRIM_ONLY_ABOVE, sr) THEN t30 ELSE n
        second == IF n > Samples(TRIM_ONLY_ABOVE, sr) /\ first < Samples(TRIM_RETRY_BELOW, sr)
                      THEN t40 ELSE first
    IN second
ConditionalTrim(n, sr, t30, t40) ==
    LET first == IF n > Samples(TRIM_ONLY_ABOVE, sr) THEN t30 ELSE n
        second == IF n > Samples(TRIM_ONLY_ABOVE, sr) /\ first < Samples(TRIM_RETRY_BELOW, sr)
                      THEN t40 ELSE first
        third == IF n > Samples(TRIM_ONLY_ABOVE, sr) /\ second < Samples(TRIM_SKIP_BELOW, sr)
                     THEN n ELSE second
    IN third

\* optimize_for_openvoice, on durations: t30 and t40 are what trim_silence
\* returns for this buffer at top_db=30 and top_db=40.
OptimizedDuration(d, t30, t40) ==
    PadToMinimum(ConditionalTrim(d, 10, t30, t40), OPENVOICE_MIN_DURATION)

\* apply_fade(fade_in=0.05, fade_out=0.05): int(fade * sample_rate) samples.
FADE_HUNDREDTHS == 5
FadeSamples(sr) == (FADE_HUNDREDTHS * sr) \div 100

\* apply_fade multiplies audio_data[:k] and audio_data[-k:] in place by a
\* curve of k samples; with fewer than k samples in the buffer the shapes do
\* not match, numpy raises and the except clause raises AudioProcessingError.
ApplyFadeRaises(n, sr) == FadeSamples(sr) > 0 /\ n < FadeSamples(sr)

\* pad_audio_to_minimum on sample counts: padding_samples is
\* int((min_duration - len/sample_rate) * sample_rate), a truncated float
\* product that comes out `lost` (0 or 1) samples below the exact difference.
PadAudioToMinimum(n, minSamples, lost) ==
    IF n >= minSamples THEN n ELSE n + ((minSamples - n) - lost)

\* A buffer as ensure_consistent_format sees it: its channels, length and
\* dtype, and the conversions its samples went through.
NoFormat == [channels |-> 1, len |-> 0, dtype |-> "float32", hist |-> <<>>]

NoAudioResult ==
    [raises |-> "none", len |-> 0, trimmed |-> 0, peak |-> 0, segments |-> <<>>,
     samples |-> <<>>, again |-> <<>>,
     fmt |-> NoFormat, rate |-> 0, fmt2 |-> NoFormat, rate2 |-> 0, calls |-> <<>>,
     caller |-> <<>>]

\* The calls of trim_silence optimize_for_openvoice makes on a buffer of n
\* samples (lines 428-438), each with its top_db.
TrimCallsAlwaysRetrying(n, sr, t30) ==
    IF n > Samples(TRIM_ONLY_ABOVE, sr)
        THEN << <<"trim_silence", 30>>, <<"trim_silence", 40>> >>
        ELSE <<>>
TrimCalls(n, sr, t30) ==
    IF n > Samples(TRIM_ONLY_ABOVE, sr)
        THEN IF t30 < Samples(TRIM_RETRY_BELOW, sr)
                 THEN << <<"trim_silence", 30>>, <<"trim_silence", 40>> >>
                 ELSE << <<"trim_silence", 30>> >>
        ELSE <<>>

\* The calls optimize_for_openvoice makes, in order (lines 428-456); an
\* exception of apply_fade ends them.
OptimizeCalls(in) ==
    TrimCalls(in.len, in.sr, in.t30) \o << <<"apply_fade">> >> \o
    (IF ApplyFadeRaises(ConditionalTrim(in.len, in.sr, in.t30, in.t40), in.sr)
         THEN <<>> ELSE << <<"pad_audio_to_minimum">> >>)

\* optimize_for_openvoice on a buffer of in.len samples at in.sr.
OptimizeForOpenvoice(in) ==
    LET trimmed == ConditionalTrim(in.len, in.sr, in.t30, in.t40)
    IN IF ApplyFadeRaises(trimmed, in.sr)
          THEN [NoAudioResult EXCEPT !.raises = "AudioProcessingError", !.trimmed = trimmed,
                                     !.calls = OptimizeCalls(in)]
          ELSE [NoAudioResult EXCEPT
                   !.trimmed = trimmed,
                   !.calls = OptimizeCalls(in),
                   !.len = PadAudioToMinimum(trimmed, Samples(OPENVOICE_MIN_DURATION, in.sr),
                                             in.lost)]

\* The steps of lines 97-154, in the order of the code.
PrepareSteps ==
    <<"load", "resample", "normalize_loudness", "ensure_format",
      "optimize_input", "optimize_reference", "pad", "analyze">>

\* What the cleanup of the except clause (lines 262-270) leaves on disk: the
\* unlinks run in order inside one try and the first that raises ends them.
CleanupAfterExcept(files, assigned) ==
    LET afterInput ==
            IF "temp_input_path" \in assigned
                THEN [files |-> files \ {TempInput(0)}, stopped |-> TempInput(0) \notin files]
                ELSE [files |-> files, stopped |-> FALSE]
        afterRef ==
            IF afterInput.stopped THEN afterInput
            ELSE IF "temp_ref_path" \in assigned
                THEN [files |-> afterInput.files \ {TempRef(0)},
                      stopped |-> TempRef(0) \notin afterInput.files]
                ELSE afterInput
        afterOutput ==
            IF afterRef.stopped THEN afterRef
            ELSE IF "temp_output_path" \in assigned
                THEN [files |-> afterRef.files \ {OutputFile(0)}, stopped |-> FALSE]
                ELSE afterRef
    IN afterOutput.files

\* The except clause of the endpoint (lines 260-286), entered from `step`
\* with the files `files` on disk and the locals `assigned`.
SingleExcept(step, files, assigned) ==
    /\ disk' = CleanupAfterExcept(files, assigned)
    /\ slocals' = assigned
    /\ sfault' = step
    /\ sresult' = "ConversionError"
    /\ spc' = "done"

\* Lines 69-93: the optional database record.
SingleCreateRecord ==
    /\ spc = "start"
    /\ db_record' \in BOOLEAN
    /\ spc' = "prepare"
    /\ UNCHANGED <<slocals, sfault, sresult, ref_prepared, pipeline>>
    /\ UNCHANGED <<convVars, batchVars>>
    /\ UNCHANGED <<audioVars, entryVars>>

\* The endpoint pads a prepared reference shorter than this (line 137).
MIN_REFERENCE_PAD == 20

\* Durations and voice content of the uploaded reference.
ReferenceUploads == { <<8, 4>>, <<15, 4>>, <<70, 4>>, <<70, 70>>, <<100, 70>> }

\* Lines 125 and 133-141 on the reference: optimize_for_openvoice, then
\* pad_audio_to_minimum(min_duration=2.0).  Both extend a short buffer with
\* np.zeros; a trim only removes silence, so the voice content stays.
PrepareReference(d, v, t30, t40) ==
    LET trimmed == ConditionalTrim(d, 10, t30, t40)
        optimized == OptimizedDuration(d, t30, t40)
        padded == PadToMinimum(optimized, MIN_REFERENCE_PAD)
    IN [dur |-> padded, voice |-> v, silence |-> padded - trimmed, repeated |-> 0]

\* settings.TARGET_SAMPLE_RATE, in the units of SampleRates.
TARGET_SAMPLE_RATE == 40

\* Whether the conditional trim of optimize_for_openvoice binds
\* trimmed_audio to a result of trim_silence (lines 428-445) rather than to
\* the buffer it was given.
TrimResultUsed(d, t30, t40) ==
    /\ d > TRIM_ONLY_ABOVE
    /\ (IF t30 < TRIM_RETRY_BELOW THEN t40 ELSE t30) >= TRIM_SKIP_BELOW

\* The statements of lines 108-141 and, inside them, of
\* optimize_for_openvoice (428-460) that touch the buffer bound to `data`,
\* in the order of the code: the operation called, the name it reads and
\* the name its result is bound to ("bind" is a plain assignment or the
\* passing of an argument).
PipelineStatementsLoudnessFirst(data, resample, normalize, trimmed, endpoint_pad) ==
    (IF normalize
         THEN << [op |-> "normalize_loudness", reads |-> data, writes |-> data] >>
         ELSE <<>>) \o
    (IF resample
         THEN << [op |-> "resample_audio", reads |-> data, writes |-> data] >>
         ELSE <<>>) \o
    << [op |-> "ensure_consistent_format", reads |-> data, writes |-> data],
       [op |-> "bind", reads |-> data, writes |-> "audio_data"],
       [op |-> IF trimmed THEN "trim_silence" ELSE "bind",
        reads |-> "audio_data", writes |-> "trimmed_audio"],
       [op |-> "apply_fade", reads |-> "trimmed_audio", writes |-> "faded_audio"],
       [op |-> "pad_audio_to_minimum", reads |-> "faded_audio", writes |-> "optimized_audio"],
       [op |-> "bind", reads |-> "optimized_audio", writes |-> data] >> \o
    (IF endpoint_pad
         THEN << [op |-> "pad_audio_to_minimum", reads |-> data, writes |-> data] >>
         ELSE <<>>)
PipelineStatements(data, resample, normalize, trimmed, endpoint_pad) ==
    (IF resample
         THEN << [op |-> "resample_audio", reads |-> data, writes |-> data] >>
         ELSE <<>>) \o
    (IF normalize
         THEN << [op |-> "normalize_loudness", reads |-> data, writes |-> data] >>
         ELSE <<>>) \o
    << [op |-> "ensure_consistent_format", reads |-> data, writes |-> data],
       [op |-> "bind", reads |-> data, writes |-> "audio_data"],
       [op |-> IF trimmed THEN "trim_silence" ELSE "bind",
        reads |-> "audio_data", writes |-> "trimmed_audio"],
       [op |-> "apply_fade", reads |-> "trimmed_audio", writes |-> "faded_audio"],
       [op |-> "pad_audio_to_minimum", reads |-> "faded_audio", writes |-> "optimized_audio"],
       [op |-> "bind", reads |-> "optimized_audio", writes |-> data] >> \o
    (IF endpoint_pad
         THEN << [op |-> "pad_audio_to_minimum", reads |-> data, writes |-> data] >>
         ELSE <<>>)

\* The names the statements read and bind.
BufferNames ==
    {"input_data", "reference_data", "audio_data", "trimmed_audio", "faded_audio",
     "optimized_audio"}

\* Running the statements: env maps each name to the buffer bound to it
\* (buffers are numbered in the order they are made, 0 is the decoded
\* upload, -1 is unbound), rate is the sample rate of the buffer under
\* `data`.  The result lists, per operation called, the buffer it was
\* given, the buffer it returned and the rate of the buffer it was given.
RECURSIVE RunStatements(_, _, _, _, _)
RunStatements(stmts, env, made, rate, target) ==
    IF stmts = <<>> THEN <<>>
    ELSE LET st == Head(stmts)
             taken == env[st.reads]
         IN IF st.op = "bind"
               THEN RunStatements(Tail(stmts), [env EXCEPT ![st.writes] = taken], made, rate,
                                  target)
               ELSE << [step |-> st.op, takes |-> taken, gives |-> made + 1, rate |-> rate] >>
                    \o RunStatements(Tail(stmts), [env EXCEPT ![st.writes] = made + 1],
                                     made + 1,
                                     IF st.op = "resample_audio" THEN target ELSE rate, target)

\* The steps applied to the buffer bound to `data`, decoded at rate sr
\* with duration d.
BufferPipeline(data, sr, d, normalize, t30, t40, endpoint_min) ==
    RunStatements(PipelineStatements(data, sr # TARGET_SAMPLE_RATE, normalize,
                                     TrimResultUsed(d, t30, t40),
                                     OptimizedDuration(d, t30, t40) < endpoint_min),
                  [n \in BufferNames |-> IF n = data THEN 0 ELSE -1],
                  0, sr, TARGET_SAMPLE_RATE)

\* The endpoint pads a prepared input shorter than this (line 130).
MIN_INPUT_PAD == 10

\* Lines 97-154: read and decode both uploads and run the preparation steps.
SinglePrepare ==
    /\ spc = "prepare"
    /\ \/ /\ SingleExcept("prepare", disk, slocals)
          /\ UNCHANGED <<audio, log, ref_prepared, pipeline>>
       \/ /\ \E din \in UploadDurations, ref \in ReferenceUploads,
                t30 \in TrimmedDurations, t40 \in TrimmedDurations,
                v \in VoiceDurations, e \in EngineBehaviours,
                in_sr \in SampleRates, ref_sr \in SampleRates, normalize \in BOOLEAN :
                /\ t30 <= t40
                /\ pipeline' =
                       [target |-> TARGET_SAMPLE_RATE,
                        input |-> BufferPipeline("input_data", in_sr, din, normalize, t30, t40,
                                                 MIN_INPUT_PAD),
                        reference |-> BufferPipeline("reference_data", ref_sr, ref[1],
                                                     normalize, t30, t40, MIN_REFERENCE_PAD)]
                /\ ref_prepared' = PrepareReference(ref[1], ref[2], t30, t40)
                /\ audio' = [audio EXCEPT ![0] =
                       [inDur |-> OptimizedDuration(din, t30, t40), voiceDur |-> v,
                        refDur |-> ref_prepared'.dur, decodable |-> TRUE,
                        makedirs_fails |-> FALSE, engine |-> e]]
          /\ log' = [log EXCEPT ![0] = @ \o PrepareSteps]
          /\ spc' = "save"
          /\ UNCHANGED <<disk, slocals, sfault, sresult>>
    /\ UNCHANGED db_record
    /\ UNCHANGED <<openvoice_installed, librosa_installed, openvoice_available, probes,
                   vpc, raised, engineExc, outcome, execQueue, running>>
    /\ UNCHANGED batchVars
    /\ UNCHANGED <<audioVars, entryVars>>

\* Lines 157-175: write the two temp files, name the temp output and enter
\* convert_voice, up to the executor hand-off.
SingleSaveAndCall ==
    /\ spc = "save"
    /\ \/ /\ SingleExcept("save_input", disk \cup {TempInput(0)}, {})
          /\ UNCHANGED <<openvoice_available, probes, vpc, raised, outcome, log, execQueue>>
       \/ /\ SingleExcept("save_ref", disk \cup {TempInput(0), TempRef(0)},
                          {"temp_input_path"})
          /\ UNCHANGED <<openvoice_available, probes, vpc, raised, outcome, log, execQueue>>
       \/ LET files == disk \cup {TempInput(0), TempRef(0)}
              assigned == {"temp_input_path", "temp_ref_path", "temp_output_path"}
          IN /\ ConvertVoiceCallOn(0, files, audio[0], <<"save_input", "save_ref">>)
             /\ IF EntryResult(0, files, audio[0]).exc # "none"
                   THEN SingleExcept("convert", files, assigned)
                   ELSE /\ disk' = files
                        /\ slocals' = assigned
                        /\ spc' = "convert"
                        /\ UNCHANGED <<sfault, sresult>>
    /\ UNCHANGED <<db_record, ref_prepared, pipeline>>
    /\ UNCHANGED <<openvoice_installed, librosa_installed, audio, engineExc, running>>
    /\ UNCHANGED batchVars
    /\ UNCHANGED <<audioVars, entryVars>>

\* Lines 228-236 of convert_voice and lines 177-193 of the endpoint: remove
\* the temp input and reference, check and read the output.
SingleAfterConvert ==
    /\ spc = "convert"
    /\ vpc[0] = "engine_done"
    /\ ConvertVoiceResumeOn(0, disk)
    /\ IF ResumeOutcome(0, disk) # "returned"
          THEN SingleExcept("convert", disk, slocals)
          ELSE LET files == disk \ {TempInput(0), TempRef(0)}
               IN IF OutputFile(0) \notin files
                     THEN SingleExcept("verify", files, slocals)
                     ELSE /\ disk' = files
                          /\ spc' = "store"
                          /\ UNCHANGED <<slocals, sfault, sresult>>
    /\ UNCHANGED <<db_record, ref_prepared, pipeline>>
    /\ UNCHANGED <<openvoice_installed, librosa_installed, openvoice_available, probes,
                   audio, engineExc, execQueue, running>>
    /\ UNCHANGED batchVars
    /\ UNCHANGED <<audioVars, entryVars>>

\* Lines 195-258: store the audio (with the file-system fallback and its
\* database update, which may raise), remove the temp output and return.
SingleStoreAndReturn ==
    /\ spc = "store"
    /\ \/ /\ db_record
          /\ SingleExcept("store", disk, slocals)
       \/ /\ disk' = disk \ {OutputFile(0)}
          /\ sresult' = "returned"
          /\ spc' = "done"
          /\ UNCHANGED <<slocals, sfault>>
    /\ UNCHANGED <<db_record, ref_prepared, pipeline>>
    /\ UNCHANGED <<openvoice_installed, librosa_installed, openvoice_available, probes,
                   audio, vpc, raised, engineExc, outcome, log, execQueue, running>>
    /\ UNCHANGED batchVars
    /\ UNCHANGED <<audioVars, entryVars>>

InitSingle ==
    /\ openvoice_installed \in BOOLEAN
    /\ librosa_installed \in BOOLEAN
    /\ openvoice_available = "None"
    /\ probes = 0
    /\ disk = {}
    /\ audio = [c \in Callers |-> NoAudio]
    /\ vpc = [c \in Callers |-> "idle"]
    /\ raised = [c \in Callers |-> "none"]
    /\ engineExc = [c \in Callers |-> "none"]
    /\ outcome = [c \in Callers |-> "pending"]
    /\ log = [c \in Callers |-> <<>>]
    /\ execQueue = <<>>
    /\ running = {}
    /\ BatchIdle
    /\ spc = "start"
    /\ slocals = {}
    /\ db_record = FALSE
    /\ sfault = "none"
    /\ sresult = "none"
    /\ ref_prepared = NoReference
    /\ pipeline = NoPipeline
    /\ AudioIdle
    /\ EntryIdle

NextSingle ==
    \/ SingleCreateRecord
    \/ SinglePrepare
    \/ SingleSaveAndCall
    \/ WorkerStart(0)
    \/ WorkerFinish(0)
    \/ SingleAfterConvert
    \/ SingleStoreAndReturn

SpecSingle == InitSingle /\ [][NextSingle]_vars

\* ------------------------------------------- direct calls of convert_voice
InitConv ==
    /\ openvoice_installed \in BOOLEAN
    /\ librosa_installed \in BOOLEAN
    /\ openvoice_available = "None"
    /\ probes = 0
    /\ disk \in SUBSET {TempInput(0), TempRef(0), OutputFile(0)}
    /\ \E a \in AudioEnvs : audio = [c \in Callers |-> IF c = 0 THEN a ELSE NoAudio]
    /\ vpc = [c \in Callers |-> IF c = 0 THEN "called" ELSE "idle"]
    /\ raised = [c \in Callers |-> "none"]
    /\ engineExc = [c \in Callers |-> "none"]
    /\ outcome = [c \in Callers |-> "pending"]
    /\ log = [c \in Callers |-> <<>>]
    /\ execQueue = <<>>
    /\ running = {}
    /\ BatchIdle
    /\ SingleIdle
    /\ AudioIdle
    /\ EntryIdle

NextConv ==
    \/ ConvertVoiceCall(0)
    \/ WorkerStart(0)
    \/ WorkerFinish(0)
    \/ ConvertVoiceResume(0)

SpecConv == InitConv /\ [][NextConv]_vars

\* ------------------------------------- audio operations applied on their own
\* Amplitudes are in thousandths of full scale.
FULL_SCALE == 1000
\* peak_limit_linear = 10 ** (peak_limit_db / 20.0) with peak_limit_db = -1.0.
PEAK_LIMIT_LINEAR == 891

\* librosa.util.normalize: the buffer scaled to peak 1.0 (silence stays silent).
LibrosaNormalize(peak) == IF peak > 0 THEN FULL_SCALE ELSE 0

\* Lines 148-152 of normalize_loudness: scale down when above the limit.
PeakLimit(peak) == IF peak > PEAK_LIMIT_LINEAR THEN PEAK_LIMIT_LINEAR ELSE peak

\* The paths through normalize_loudness: loudness measured (lines 140-143),
\* loudness NaN (144-147), pyloudnorm missing (157-159), any other
\* exception, e.g. raised by the meter (160-163).
LoudnessPaths == {"measured", "nan", "import_error", "exception"}

\* The peak of the buffer normalize_loudness returns; in.gain = <<p, q>> is
\* the linear gain p/q computed from the measured loudness.
NormalizeLoudness(in) ==
    CASE in.path = "measured" -> PeakLimit((in.peak * in.gain[1]) \div in.gain[2])
      [] in.path = "nan" -> PeakLimit(LibrosaNormalize(in.peak))
      [] in.path = "import_error" -> LibrosaNormalize(in.peak)
      [] in.path = "exception" -> LibrosaNormalize(in.peak)

\* sum(end - start for start, end in voice_segments)
RECURSIVE SegmentsDuration(_)
SegmentsDuration(segs) ==
    IF segs = <<>> THEN 0
    ELSE (Head(segs)[2] - Head(segs)[1]) + SegmentsDuration(Tail(segs))

\* VoiceConverter._analyze_voice_content: the segments found, or on any
\* exception the single segment (0.0, duration) (lines 180-184).
ConverterAnalyzeVoiceContent(in) ==
    IF in.vad_raises
        THEN [NoAudioResult EXCEPT !.len = in.len, !.segments = << <<0, in.len>> >>]
        ELSE [NoAudioResult EXCEPT !.len = in.len, !.segments = in.segments]

\* AudioProcessor.analyze_voice_content: the segments found, or on any
\* exception AudioProcessingError (lines 374-376).
ProcessorAnalyzeVoiceContent(in) ==
    IF in.vad_raises
        THEN [NoAudioResult EXCEPT !.len = in.len, !.raises = "AudioProcessingError"]
        ELSE [NoAudioResult EXCEPT !.len = in.len, !.segments = in.segments]

\* resample_audio (lines 179-183): the array itself at equal rates, else
\* librosa.resample, which returns ceil(n * target_sr / orig_sr) samples.
ResampleAudio(buf, orig_sr, target_sr) ==
    IF orig_sr = target_sr THEN buf
    ELSE [buf EXCEPT !.len = (buf.len * target_sr + orig_sr - 1) \div orig_sr,
                     !.hist = Append(buf.hist, <<"resample", orig_sr, target_sr>>)]

\* ensure_consistent_format (lines 204-221): the steps it takes and the
\* pair it returns; an exception of resample_audio ends it with
\* AudioProcessingError.
EnsureConsistentFormatKeepingRate(buf, sample_rate, target_sr, resample_raises) ==
    LET mono == IF buf.channels > 1
                    THEN [buf EXCEPT !.channels = 1, !.hist = Append(buf.hist, <<"mean">>)]
                    ELSE buf
        resampled == IF sample_rate # target_sr
                         THEN ResampleAudio(mono, sample_rate, target_sr)
                         ELSE mono
        typed == IF resampled.dtype # "float32"
                     THEN [resampled EXCEPT !.dtype = "float32",
                                            !.hist = Append(resampled.hist, <<"astype">>)]
                     ELSE resampled
    IN IF sample_rate # target_sr /\ resample_raises
          THEN [raises |-> "AudioProcessingError", buf |-> buf, rate |-> sample_rate]
          ELSE [raises |-> "none", buf |-> typed, rate |-> sample_rate]
EnsureConsistentFormat(buf, sample_rate, target_sr, resample_raises) ==
    LET mono == IF buf.channels > 1
                    THEN [buf EXCEPT !.channels = 1, !.hist = Append(buf.hist, <<"mean">>)]
                    ELSE buf
        resampled == IF sample_rate # target_sr
                         THEN ResampleAudio(mono, sample_rate, target_sr)
                         ELSE mono
        typed == IF resampled.dtype # "float32"
                     THEN [resampled EXCEPT !.dtype = "float32",
                                            !.hist = Append(resampled.hist, <<"astype">>)]
                     ELSE resampled
    IN IF sample_rate # target_sr /\ resample_raises
          THEN [raises |-> "AudioProcessingError", buf |-> buf, rate |-> sample_rate]
          ELSE [raises |-> "none", buf |-> typed, rate |-> target_sr]

\* np.zeros(k)
Zeros(k) == [i \in 1..k |-> 0]

\* pad_audio_to_minimum on the samples of a buffer (lines 392-406): the
\* array itself when it is long enough, else np.concatenate([audio_data,
\* np.zeros(padding_samples)]) with the truncated padding_samples.
PadSamples(buf, sr, minTenths, lost) ==
    IF Len(buf) >= Samples(minTenths, sr) THEN buf
    ELSE buf \o Zeros(PadAudioToMinimum(Len(buf), Samples(minTenths, sr), lost) - Len(buf))

\* trim_silence (lines 267-271): librosa.effects.trim returns the slice of
\* the buffer between the leading and the trailing silence it found.
TrimSilence(buf, lead, tail) == SubSeq(buf, 1 + lead, Len(buf) - tail)

\* apply_fade on the samples of a buffer (lines 292-307): the first k
\* samples are multiplied by np.linspace(0, 1, k) and the last k by
\* np.linspace(1, 0, k), k = int(0.05 * sample_rate); np.linspace with one
\* point yields its start value.
ApplyFade(buf, sr) ==
    LET k == FadeSamples(sr)
        n == Len(buf)
        fadedIn == [i \in 1..n |->
                       IF i <= k
                           THEN IF k = 1 THEN 0 ELSE (buf[i] * (i - 1)) \div (k - 1)
                           ELSE buf[i]]
    IN [i \in 1..n |->
           IF i > n - k
               THEN IF k = 1 THEN fadedIn[i]
                    ELSE (fadedIn[i] * (n - i)) \div (k - 1)
               ELSE fadedIn[i]]

\* apply_fade as the caller sees it: the slices are multiplied in place
\* and the array itself is returned (lines 299, 304, 307), so the caller's
\* array afterwards is the returned one.
ApplyFadeInPlace(buf, sr) ==
    IF ApplyFadeRaises(Len(buf), sr)
        THEN [raises |-> "AudioProcessingError", samples |-> <<>>, caller |-> buf]
        ELSE [raises |-> "none", samples |-> ApplyFade(buf, sr), caller |-> ApplyFade(buf, sr)]

\* optimize_for_openvoice on the samples of a buffer (lines 424-460), for a
\* buffer in which trim_silence finds `lead` and `tail` silent samples at
\* either top_db: trimmed_audio is the caller's array (lines 443, 449) or
\* the slice of it librosa.effects.trim returns, a view of the same
\* memory; apply_fade writes into it; pad_audio_to_minimum concatenates.
OptimizeSamples(buf, sr, lead, tail, lost) ==
    LET n == Len(buf)
        kept == n - lead - tail
        used == ConditionalTrim(n, sr, kept, kept) = kept
        start == IF used THEN lead ELSE 0
        stop == IF used THEN n - tail ELSE n
        faded == ApplyFadeInPlace(SubSeq(buf, start + 1, stop), sr)
    IN IF faded.raises # "none"
          THEN [raises |-> faded.raises, samples |-> <<>>, caller |-> buf]
          ELSE [raises |-> "none",
                samples |-> PadSamples(faded.samples, sr, OPENVOICE_MIN_DURATION, lost),
                caller |-> [i \in 1..n |->
                               IF i > start /\ i <= stop THEN faded.caller[i - start]
                               ELSE buf[i]]]

\* hop_length = 512 of both analyzers.
HOP_LENGTH == 512

\* voice_frames (lines 147-151): the 0-based indexes of the frames found
\* voiced, in increasing order; frames[i + 1] tells whether frame i is.
RECURSIVE VoiceFrames(_, _)
VoiceFrames(frames, i) ==
    IF i >= Len(frames) THEN <<>>
    ELSE (IF frames[i + 1] THEN <<i>> ELSE <<>>) \o VoiceFrames(frames, i + 1)

\* `end_time - start_time > 0.1` with frame_times[i] = i * hop_length / sr.
SpanExceedsTenth(start_frame, current_frame, sr) ==
    (current_frame - start_frame) * HOP_LENGTH * 10 > sr

\* A segment (start_time, end_time), as sample offsets: times are offsets
\* divided by the sample rate.
Segment(start_frame, current_frame) ==
    <<start_frame * HOP_LENGTH, current_frame * HOP_LENGTH>>

\* The grouping loop (voice_converter.py:160-175, audio_processor.py:
\* 347-362) from index i of voice_frames on.
RECURSIVE GroupFramesBridgingGaps(_, _, _, _, _, _)
GroupFramesBridgingGaps(vf, i, start_frame, current_frame, segs, sr) ==
    IF i > Len(vf)
        THEN IF SpanExceedsTenth(start_frame, current_frame, sr)
                 THEN Append(segs, Segment(start_frame, current_frame))
                 ELSE segs
        ELSE IF vf[i] - current_frame > 2
                 THEN GroupFramesBridgingGaps(vf, i + 1, vf[i], vf[i],
                          IF SpanExceedsTenth(start_frame, current_frame, sr)
                              THEN Append(segs, Segment(start_frame, current_frame))
                              ELSE segs, sr)
                 ELSE GroupFramesBridgingGaps(vf, i + 1, start_frame, vf[i], segs, sr)
RECURSIVE GroupFrames(_, _, _, _, _, _)
GroupFrames(vf, i, start_frame, current_frame, segs, sr) ==
    IF i > Len(vf)
        THEN IF SpanExceedsTenth(start_frame, current_frame, sr)
                 THEN Append(segs, Segment(start_frame, current_frame))
                 ELSE segs
        ELSE IF vf[i] - current_frame > 1
                 THEN GroupFrames(vf, i + 1, vf[i], vf[i],
                          IF SpanExceedsTenth(start_frame, current_frame, sr)
                              THEN Append(segs, Segment(start_frame, current_frame))
                              ELSE segs, sr)
                 ELSE GroupFrames(vf, i + 1, start_frame, vf[i], segs, sr)

\* voice_segments for a pattern of voiced frames (lines 153-175).
VoiceSegments(frames, sr) ==
    LET vf == VoiceFrames(frames, 0)
    IN IF vf = <<>> THEN <<>> ELSE GroupFrames(vf, 2, vf[1], vf[1], <<>>, sr)

\* Buffer lengths and trim results the operations are applied to.
BufferLengths == UNION { {1, FadeSamples(sr), (15 * sr) \div 10, 6 * sr - 1, 6 * sr,
                          8 * sr, 8 * sr + 1, 10 * sr} : sr \in SampleRates }
TrimLengths == UNION { {2 * sr, 3 * sr - 1, 3 * sr, 4 * sr - 1, 4 * sr, 9 * sr} :
                        sr \in SampleRates }

NoAudioInput ==
    [op |-> "none", len |-> 1, sr |-> 20, t30 |-> 1, t40 |-> 1, lost |-> 0, peak |-> 0,
     path |-> "measured", gain |-> <<1, 1>>, vad_raises |-> FALSE, segments |-> <<>>,
     samples |-> <<>>, min |-> 0, lost2 |-> 0, lead |-> 0, tail |-> 0,
     fmt |-> NoFormat, rate |-> 0, target |-> 0, resample_raises |-> FALSE,
     frames |-> <<>>]

\* Buffers handed to optimize_for_openvoice: a less aggressive trim keeps
\* at least as much, and a buffer of at most 8s is never trimmed.
OptimizeInputs ==
    { [NoAudioInput EXCEPT !.op = "optimize", !.len = x[1], !.sr = x[2], !.t30 = x[3],
                           !.t40 = x[4], !.lost = x[5]] :
        x \in { y \in BufferLengths \X SampleRates \X (TrimLengths \cup BufferLengths)
                          \X (TrimLengths \cup BufferLengths) \X {0, 1} :
                   /\ y[3] <= y[4]
                   /\ y[4] <= y[1]
                   /\ (y[1] <= Samples(TRIM_ONLY_ABOVE, y[2]) => y[3] = y[1])
                   /\ (y[1] > Samples(TRIM_ONLY_ABOVE, y[2]) =>
                          (y[3] \in TrimLengths /\ y[4] \in TrimLengths)) } }

\* Buffers handed to normalize_loudness.
LoudnessInputs ==
    { [NoAudioInput EXCEPT !.op = "normalize_loudness", !.peak = x[1], !.path = x[2],
                           !.gain = x[3]] :
        x \in {0, 300, 891, 1000, 2500} \X LoudnessPaths
                  \X { <<1, 4>>, <<1, 1>>, <<3, 1>>, <<10, 1>> } }

\* Buffers handed to the voice-activity analyzers.
AnalyzeInputs ==
    { [NoAudioInput EXCEPT !.op = "analyze", !.len = x[1], !.vad_raises = x[2],
                           !.segments = x[3]] :
        x \in {30, 120} \X BOOLEAN \X { <<>>, << <<0, 8>> >>, << <<2, 10>>, <<15, 30>> >> } }

\* The samples of an uploaded buffer of n samples: one of two contents, the
\* second with silent samples inside.
BufferSamples(n, content) ==
    [i \in 1..n |-> IF content = "speech" THEN 1 + (i % 5) ELSE (i % 3)]

\* The min_duration values the callers pass (voice_conversion.py:128-129,
\* audio_processor.py:456 and the default of line 379), in tenths.
PadMinimums == {10, 20, 50, 60}

\* Buffers handed to pad_audio_to_minimum, once and then once more to its
\* result: the truncation loses at most what there is to pad.
PadInputs ==
    { [NoAudioInput EXCEPT !.op = "pad", !.samples = BufferSamples(x[1], x[6]), !.len = x[1],
                           !.sr = x[2], !.min = x[3], !.lost = x[4], !.lost2 = x[5]] :
        x \in { y \in {1, 19, 20, 119, 120, 239, 240, 300} \X SampleRates \X PadMinimums
                          \X {0, 1} \X {0, 1} \X {"speech", "pauses"} :
                   /\ (y[1] >= Samples(y[3], y[2]) => (y[4] = 0 /\ y[5] = 0))
                   /\ (y[4] = 0 => y[5] = 0) } }

\* Buffers handed to trim_silence, with the silence librosa finds in them.
TrimInputs ==
    { [NoAudioInput EXCEPT !.op = "trim", !.samples = BufferSamples(x[1], x[4]), !.len = x[1],
                           !.lead = x[2], !.tail = x[3]] :
        x \in { y \in {1, 20, 40} \X {0, 1, 7, 20} \X {0, 1, 13, 20} \X {"speech", "pauses"} :
                   y[2] + y[3] <= y[1] } }

\* The patterns of voiced and unvoiced frames of up to n frames.
RECURSIVE FramePatterns(_)
FramePatterns(n) ==
    IF n = 0 THEN { <<>> }
    ELSE FramePatterns(n - 1) \cup
         { Append(f, v) : f \in { g \in FramePatterns(n - 1) : Len(g) = n - 1 }, v \in BOOLEAN }

\* Buffers handed to the analyzers with the frames found voiced in them
\* (librosa's centred features have 1 + n // hop_length frames for n
\* samples): the shortest and the longest buffer with that many frames, at rates
\* where 0.1s spans more than one and more than four frames.
FrameInputs ==
    { [NoAudioInput EXCEPT !.op = "voice_segments", !.frames = x[1], !.sr = x[2],
                           !.len = IF x[3] THEN (Len(x[1]) - 1) * HOP_LENGTH
                                   ELSE Len(x[1]) * HOP_LENGTH - 1] :
        x \in { y \in FramePatterns(MaxFrames) \X {8000, 22050} \X BOOLEAN : Len(y[1]) >= 1 } }

\* Buffers handed to apply_fade(fade_in=0.05, fade_out=0.05).
FadeInputs ==
    { [NoAudioInput EXCEPT !.op = "fade", !.samples = BufferSamples(x[1], x[3]), !.len = x[1],
                           !.sr = x[2]] :
        x \in {1, 2, 3, 30} \X SampleRates \X {"speech", "pauses"} }

\* Buffers handed to optimize_for_openvoice with the silence at their ends:
\* 1.5s and 10s at 20 samples per second.
OptimizeSampleInputs ==
    { [NoAudioInput EXCEPT !.op = "optimize_samples", !.samples = BufferSamples(x[1], x[5]),
                           !.len = x[1], !.sr = 20, !.lead = x[2], !.tail = x[3],
                           !.lost = x[4]] :
        x \in { y \in {30, 200} \X {0, 10, 90} \X {0, 20, 90} \X {0, 1}
                          \X {"speech", "pauses"} :
                   /\ y[2] + y[3] < y[1]
                   /\ (y[1] <= Samples(TRIM_ONLY_ABOVE, 20) => (y[2] = 0 /\ y[3] = 0)) } }

\* Buffers handed to ensure_consistent_format with their rate and a target.
FormatInputs ==
    { [NoAudioInput EXCEPT !.op = "ensure_format",
                           !.fmt = [NoFormat EXCEPT !.channels = x[1], !.len = x[2],
                                                    !.dtype = x[3]],
                           !.rate = x[4], !.target = x[5], !.resample_raises = x[6]] :
        x \in {1, 2} \X {0, 30, 45} \X {"float32", "float64", "int16"} \X {20, 30, 40}
                  \X SampleRates \X BOOLEAN }

AudioApply(op, result) ==
    /\ aop = "none"
    /\ aop' = op
    /\ aout' = result
    /\ UNCHANGED ain
    /\ UNCHANGED <<convVars, batchVars, singleVars, entryVars>>

AudioOptimize ==
    /\ ain.op = "optimize"
    /\ AudioApply("optimize", OptimizeForOpenvoice(ain))

AudioNormalizeLoudness ==
    /\ ain.op = "normalize_loudness"
    /\ AudioApply("normalize_loudness", [NoAudioResult EXCEPT !.peak = NormalizeLoudness(ain)])

AudioConverterAnalyze ==
    /\ ain.op = "analyze"
    /\ AudioApply("converter_analyze", ConverterAnalyzeVoiceContent(ain))

AudioProcessorAnalyze ==
    /\ ain.op = "analyze"
    /\ AudioApply("processor_analyze", ProcessorAnalyzeVoiceContent(ain))

\* pad_audio_to_minimum applied to a buffer, and applied again to its result.
AudioPad ==
    /\ ain.op = "pad"
    /\ LET once == PadSamples(ain.samples, ain.sr, ain.min, ain.lost)
       IN AudioApply("pad", [NoAudioResult EXCEPT
                                !.samples = once, !.len = Len(once),
                                !.caller = ain.samples,
                                !.again = PadSamples(once, ain.sr, ain.min, ain.lost2)])

\* ensure_consistent_format applied to a buffer and, when it returned,
\* applied again to what it returned with the same target.
AudioEnsureFormat ==
    /\ ain.op = "ensure_format"
    /\ LET once == EnsureConsistentFormat(ain.fmt, ain.rate, ain.target, ain.resample_raises)
           twice == EnsureConsistentFormat(once.buf, once.rate, ain.target,
                                           ain.resample_raises)
       IN AudioApply("ensure_format",
                     [NoAudioResult EXCEPT !.raises = once.raises,
                                           !.fmt = once.buf, !.rate = once.rate,
                                           !.fmt2 = twice.buf, !.rate2 = twice.rate])

AudioTrim ==
    /\ ain.op = "trim"
    /\ LET kept == TrimSilence(ain.samples, ain.lead, ain.tail)
       IN AudioApply("trim", [NoAudioResult EXCEPT !.samples = kept, !.len = Len(kept),
                                                  !.caller = ain.samples])

\* The voice segments either analyzer finds for a pattern of voiced frames.
AudioVoiceSegments ==
    /\ ain.op = "voice_segments"
    /\ AudioApply("voice_segments",
                  [NoAudioResult EXCEPT !.len = ain.len,
                                        !.segments = VoiceSegments(ain.frames, ain.sr)])

\* apply_fade applied to a buffer the caller keeps a reference to.
AudioFade ==
    /\ ain.op = "fade"
    /\ LET r == ApplyFadeInPlace(ain.samples, ain.sr)
       IN AudioApply("fade", [NoAudioResult EXCEPT !.raises = r.raises, !.samples = r.samples,
                                                  !.len = Len(r.samples),
                                                  !.caller = r.caller])

\* optimize_for_openvoice applied to a buffer the caller keeps a reference to.
AudioOptimizeSamples ==
    /\ ain.op = "optimize_samples"
    /\ LET r == OptimizeSamples(ain.samples, ain.sr, ain.lead, ain.tail, ain.lost)
       IN AudioApply("optimize_samples",
                     [NoAudioResult EXCEPT !.raises = r.raises, !.samples = r.samples,
                                           !.len = Len(r.samples), !.caller = r.caller])

InitAudio ==
    /\ openvoice_installed = TRUE
    /\ librosa_installed = TRUE
    /\ openvoice_available = "None"
    /\ probes = 0
    /\ disk = {}
    /\ audio = [c \in Callers |-> NoAudio]
    /\ vpc = [c \in Callers |-> "idle"]
    /\ raised = [c \in Callers |-> "none"]
    /\ engineExc = [c \in Callers |-> "none"]
    /\ outcome = [c \in Callers |-> "pending"]
    /\ log = [c \in Callers |-> <<>>]
    /\ execQueue = <<>>
    /\ running = {}
    /\ BatchIdle
    /\ SingleIdle
    /\ aop = "none"
    /\ ain \in OptimizeInputs \cup LoudnessInputs \cup AnalyzeInputs \cup PadInputs
                 \cup TrimInputs \cup FormatInputs \cup FadeInputs \cup OptimizeSampleInputs
                 \cup FrameInputs
    /\ aout = NoAudioResult
    /\ EntryIdle

NextAudio ==
    \/ AudioOptimize
    \/ AudioNormalizeLoudness
    \/ AudioConverterAnalyze
    \/ AudioProcessorAnalyze
    \/ AudioPad
    \/ AudioTrim
    \/ AudioEnsureFormat
    \/ AudioFade
    \/ AudioOptimizeSamples
    \/ AudioVoiceSegments

SpecAudio == InitAudio /\ [][NextAudio]_vars

\* ------------------------------------- the boundary of the entry points
\* settings.MAX_FILE_SIZE = 50 * 1024 * 1024; sizes are in MiB.
MAX_FILE_SIZE == 50
\* `if len(input_files) > 20` of the batch endpoint.
MAX_BATCH_FILES == 20

\* An uploaded file: whether its content type starts with 'audio/', and its size.
UploadFiles == [audio : BOOLEAN, size : {MAX_FILE_SIZE, MAX_FILE_SIZE + 1}]

RECURSIVE FileLists(_)
FileLists(n) ==
    IF n = 0 THEN { <<>> }
    ELSE FileLists(n - 1) \cup
         { Append(l, f) : l \in { k \in FileLists(n - 1) : Len(k) = n - 1 }, f \in UploadFiles }

\* What an endpoint does with a request at its boundary: the exception that
\* leaves it ("none" when none does), whether it returned a response of
\* status FAILED instead, and the first steps it took on the files.
Rejected == [raises |-> "FileValidationError", failed_response |-> FALSE, steps |-> <<>>]
Accepted(steps) == [raises |-> "none", failed_response |-> FALSE, steps |-> steps]

\* convert_voice (voice_conversion.py:55-99): the four checks precede the
\* database record and the try block.
ConvertVoiceBoundary(req) ==
    IF \/ ~req.inputs[1].audio
       \/ ~req.reference.audio
       \/ req.inputs[1].size > MAX_FILE_SIZE
       \/ req.reference.size > MAX_FILE_SIZE
        THEN Rejected
        ELSE Accepted(<<"db_record", "read_input", "read_reference", "decode_input",
                        "decode_reference">>)

\* batch_convert_voices (batch_processing.py:68-91): the number of input
\* files and the content type of the reference are checked, then
\* process_batch_conversion reads and decodes the reference
\* (batch_processor.py:50-51).
BatchConvertVoicesBoundary(req) ==
    IF \/ Len(req.inputs) = 0
       \/ Len(req.inputs) > MAX_BATCH_FILES
       \/ ~req.reference.audio
        THEN Rejected
        ELSE Accepted(<<"read_reference", "decode_reference">>)

\* transform_voice (voice_to_voice.py:93-106, 209-228): the checks are inside
\* the try block whose `except Exception` returns a response of status
\* FAILED carrying str(e).
TransformVoiceBoundary(req) ==
    IF \/ ~req.inputs[1].audio
       \/ ~req.reference.audio
       \/ req.inputs[1].size > MAX_FILE_SIZE
       \/ req.reference.size > MAX_FILE_SIZE
        THEN [raises |-> "none", failed_response |-> TRUE, steps |-> <<>>]
        ELSE Accepted(<<"read_input", "read_reference", "decode_input">>)

EntryCall(name, result) ==
    /\ endpoint = "none"
    /\ request.to = name
    /\ endpoint' = name
    /\ response' = result
    /\ UNCHANGED request
    /\ UNCHANGED <<convVars, batchVars, singleVars, audioVars>>

EntryConvertVoice == EntryCall("convert_voice", ConvertVoiceBoundary(request))
EntryBatchConvertVoices ==
    EntryCall("batch_convert_voices", BatchConvertVoicesBoundary(request))
EntryTransformVoice == EntryCall("transform_voice", TransformVoiceBoundary(request))

\* The requests: one input file for the single endpoints, up to NumFiles
\* (or none) for the batch endpoint.
Requests ==
    { [to |-> e, inputs |-> l, reference |-> r] :
        e \in {"convert_voice", "batch_convert_voices", "transform_voice"},
        l \in FileLists(NumFiles), r \in UploadFiles } 

InitEntry ==
    /\ openvoice_installed = TRUE
    /\ librosa_installed = TRUE
    /\ openvoice_available = "None"
    /\ probes = 0
    /\ disk = {}
    /\ audio = [c \in Callers |-> NoAudio]
    /\ vpc = [c \in Callers |-> "idle"]
    /\ raised = [c \in Callers |-> "none"]
    /\ engineExc = [c \in Callers |-> "none"]
    /\ outcome = [c \in Callers |-> "pending"]
    /\ log = [c \in Callers |-> <<>>]
    /\ execQueue = <<>>
    /\ running = {}
    /\ BatchIdle
    /\ SingleIdle
    /\ AudioIdle
    /\ endpoint = "none"
    /\ request \in { q \in Requests : q.to = "batch_convert_voices" \/ Len(q.inputs) = 1 }
    /\ response = <<>>

NextEntry ==
    \/ EntryConvertVoice
    \/ EntryBatchConvertVoices
    \/ EntryTransformVoice

SpecEntry == InitEntry /\ [][NextEntry]_vars

\* ------------------------- several calls on one VoiceConverter instance
\* What the files of the calls hold.
CallAudioEnvs ==
    { a \in AudioEnvs :
        /\ a.inDur \in {8, 70}
        /\ a.voiceDur = 5
        /\ a.refDur = 10
        /\ a.decodable
        /\ ~a.makedirs_fails
        /\ a.engine \in {"ok", "no_output"} }

\* Between two calls the openvoice_cli package is installed or removed, so
\* that a later `import openvoice_cli.__main__` (line 31) would end otherwise.
EnvironmentChange ==
    /\ openvoice_installed' = ~openvoice_installed
    /\ UNCHANGED <<librosa_installed, openvoice_available, probes, disk, audio, vpc,
                   raised, engineExc, outcome, log, execQueue, running>>
    /\ UNCHANGED <<batchVars, singleVars>>
    /\ UNCHANGED <<audioVars, entryVars>>

InitCalls ==
    /\ openvoice_installed \in BOOLEAN
    /\ librosa_installed \in BOOLEAN
    /\ openvoice_available = "None"
    /\ probes = 0
    /\ disk = {TempInput(c) : c \in Callers} \cup {TempRef(c) : c \in Callers}
    /\ \E a \in CallAudioEnvs : audio = [c \in Callers |-> a]
    /\ vpc = [c \in Callers |-> "called"]
    /\ raised = [c \in Callers |-> "none"]
    /\ engineExc = [c \in Callers |-> "none"]
    /\ outcome = [c \in Callers |-> "pending"]
    /\ log = [c \in Callers |-> <<>>]
    /\ execQueue = <<>>
    /\ running = {}
    /\ BatchIdle
    /\ SingleIdle
    /\ AudioIdle
    /\ EntryIdle

NextCalls ==
    \/ \E c \in Callers : ConvertVoiceCall(c)
    \/ \E c \in Callers : WorkerStart(c)
    \/ \E c \in Callers : WorkerFinish(c)
    \/ \E c \in Callers : ConvertVoiceResume(c)
    \/ EnvironmentChange

SpecCalls == InitCalls /\ [][NextCalls]_vars

\* ------------------------------------------------------------------ claims
InLog(c, step) == \E k \in 1 .. Len(log[c]) : log[c][k] = step

\* C7: whatever exception is raised inside VoiceConverter.convert_voice (by
\* the availability check, the file checks, validation, makedirs, the engine
\* import or the engine call), the call is left either normally or with a
\* ConversionError; no other exception type escapes.
C7_OnlyConversionErrorEscapes ==
    \A c \in Callers : outcome[c] \in {"pending", "returned", "ConversionError"}

\* An exception of another type (OSError from makedirs, or the engine's own
\* exception) was raised inside the call and left it as ConversionError.
C7_Witness ==
    /\ vpc[0] = "done"
    /\ raised[0] \in {"OSError", "RuntimeError", "ImportError", "FileNotFoundError"}
    /\ outcome[0] = "ConversionError"

TooShort(a) ==
    \/ a.inDur < MIN_DURATION
    \/ VoiceDuration(a) < MIN_VOICE_DURATION
    \/ a.refDur < MIN_REFERENCE_DURATION

\* C8: when the input is shorter than 1.0s, or its detected voice content is
\* shorter than 0.5s, or the reference is shorter than 0.5s, convert_voice
\* never invokes the engine and ends with ConversionError, on the librosa
\* path as well as on the wave-module fallback.
C8_ShortAudioNeverReachesEngine ==
    \A c \in Callers :
        TooShort(audio[c]) =>
            /\ ~InLog(c, "submit")
            /\ vpc[c] = "done" => outcome[c] = "ConversionError"

\* Whether job i, run alone in this environment, would complete.
CompletesAlone(i) ==
    /\ jfault[i] \in {"none", "convert"}
    /\ openvoice_installed
    /\ ValidateAudioLength(librosa_installed, audio[i]) = "none"
    /\ ~audio[i].makedirs_fails
    /\ audio[i].engine = "ok"

StatusAlone(i) == IF CompletesAlone(i) THEN "completed" ELSE "failed"

\* C1: an exception raised inside a job gives that job a 'failed' entry and
\* touches nothing else: every finished job has the status it would have had
\* alone, the step in which a job fails leaves every sibling where it was,
\* and once the jobs are started the batch call does not raise.
C1_JobFailureIsIsolated ==
    /\ [](\A i \in Jobs : jpc[i] = "done" => jres[i].status = StatusAlone(i))
    /\ [](bpc = "returned" =>
            \A i \in Jobs : processed_results[i + 1].status = StatusAlone(i))
    /\ [][\A i \in Jobs :
            (jpc[i] # "done" /\ jpc'[i] = "done" /\ jres'[i].status = "failed") =>
                /\ bpc' = bpc
                /\ \A j \in Jobs \ {i} : jpc'[j] = jpc[j] /\ jres'[j] = jres[j]]_vars
    /\ [][bpc = "gather" => bpc' \in {"gather", "returned"}]_vars

\* The batch has returned with a job that failed inside the engine call and
\* a sibling that completed after it.
C1_Witness ==
    /\ bpc = "returned"
    /\ \E i, j \in Jobs :
          /\ i # j
          /\ jfault[i] = "convert" /\ raised[i] = "RuntimeError"
          /\ processed_results[i + 1].status = "failed"
          /\ processed_results[j + 1].status = "completed"
          /\ \E m, n \in 1 .. Len(finished) : m < n /\ finished[m] = i /\ finished[n] = j

\* C2: when a batch job has finished, on any exit path, neither its temp
\* input file nor its temp reference file exists any more.
C2_JobLeavesNoTempFiles ==
    \A i \in Jobs : jpc[i] = "done" => TempInput(i) \notin disk /\ TempRef(i) \notin disk

InFlight == {i \in Jobs : jpc[i] \in {"load", "convert"}}

\* C4: the number of jobs inside the semaphore-guarded section never exceeds
\* max_concurrent, and a job that finds the gate full waits: from "waiting"
\* it can only go on waiting or be admitted, never be dropped or failed.
C4_GateBoundsInFlightJobs ==
    /\ [](bpc \in {"gather", "returned"} => Cardinality(InFlight) <= max_concurrent)
    /\ [][\A i \in Jobs :
            /\ jpc[i] = "waiting" => jpc'[i] \in {"waiting", "load"}
            /\ (jpc[i] = "created" /\ jpc'[i] # "created") => jpc'[i] \in {"waiting", "load"}]_vars

\* The gate is full and a further job is blocked on it.
C4_Witness ==
    /\ max_concurrent > 0
    /\ Cardinality(InFlight) = max_concurrent
    /\ \E i \in Jobs : jpc[i] = "waiting"

\* C5: the returned list has one entry per input file and entry i describes
\* input_files[i], whatever the completion order and whichever jobs failed.
C5_ResultsArePositional ==
    bpc = "returned" =>
        /\ Len(processed_results) = NumFiles
        /\ \A i \in Jobs :
              /\ processed_results[i + 1].file_index = i
              /\ processed_results[i + 1].filename = Filename(i)

\* The batch returned although the jobs finished out of index order and one
\* of them failed.
C5_Witness ==
    /\ bpc = "returned"
    /\ finished[1] # 0
    /\ \E i \in Jobs : processed_results[i + 1].status = "failed"

\* C6 (as claimed): process_batch_conversion never raises; every failure,
\* a failure to load the shared reference included, ends in per-item entries.
C6_BatchNeverRaises == bpc # "raised"

\* C6 (amended): the batch raises only before any job exists (reference
\* loading or semaphore creation failed); once the jobs are started it can
\* only return, with one entry per input file, each completed or failed.
C6_BatchRaisesOnlyBeforeJobs ==
    /\ [](bpc = "raised" => \A i \in Jobs : jpc[i] = "none")
    /\ [][bpc = "gather" => bpc' \in {"gather", "returned"}]_vars
    /\ [](bpc = "returned" =>
            /\ Len(processed_results) = NumFiles
            /\ \A k \in 1 .. Len(processed_results) :
                  processed_results[k].status \in {"completed", "failed"})

\* The batch returned a full list although every job failed.
C6_Witness ==
    /\ bpc = "returned"
    /\ \A i \in Jobs : jres[i].status = "failed"
    /\ Len(processed_results) = NumFiles

\* C10: whenever the engine is invoked, from any entry point, both the input
\* and the reference written for that call went through optimize_for_openvoice.
C10_EngineInputIsOptimized ==
    \A c \in Callers :
        InLog(c, "engine") => InLog(c, "optimize_input") /\ InLog(c, "optimize_reference")

\* C3: when a single-conversion request has ended, normally or through the
\* except clause, none of its temp input, temp reference and temp output
\* files is left on disk.
C3_RequestLeavesNoTempFiles ==
    spc = "done" =>
        /\ TempInput(0) \notin disk
        /\ TempRef(0) \notin disk
        /\ OutputFile(0) \notin disk

\* Step x occurs in the log of c before every occurrence of step y.
Before(c, x, y) ==
    \A k \in 1 .. Len(log[c]) :
        log[c][k] = y => \E j \in 1 .. (k - 1) : log[c][j] = x

AtMostOnce(c, x) ==
    \A j, k \in 1 .. Len(log[c]) : (log[c][j] = x /\ log[c][k] = x) => j = k

\* C9 (as claimed): the duration and voice-content validation is performed
\* before the Optimization Pipeline prepares the audio.
C9_ValidateBeforePrepare ==
    /\ Before(0, "validate", "optimize_input")
    /\ Before(0, "validate", "optimize_reference")

\* C9 (amended): in a single-conversion request the steps run strictly in
\* the order prepare, validate, convert, verify: both buffers are optimized
\* and saved before validation, validation precedes the engine hand-off, the
\* engine runs after the hand-off and the output check comes after the engine
\* call; no step is repeated.
C9_PrepareValidateConvertVerify ==
    /\ Before(0, "optimize_input", "validate")
    /\ Before(0, "optimize_reference", "validate")
    /\ Before(0, "save_input", "validate")
    /\ Before(0, "save_ref", "validate")
    /\ Before(0, "validate", "submit")
    /\ Before(0, "submit", "engine")
    /\ Before(0, "engine", "verify")
    /\ \A x \in {"optimize_input", "optimize_reference", "validate", "submit",
                 "engine", "verify"} : AtMostOnce(0, x)

\* A request went through all four stages and returned.
C9_Witness ==
    /\ spc = "done"
    /\ sresult = "returned"
    /\ InLog(0, "optimize_input")
    /\ InLog(0, "validate")
    /\ InLog(0, "engine")
    /\ InLog(0, "verify")

C12_ReturnsOnlyWithOutput ==
    \A c \in Callers :
        /\ (vpc[c] = "done" /\ outcome[c] = "returned") =>
              /\ InLog(c, "engine")
              /\ InLog(c, "verify")
              /\ OutputFile(c) \in disk
        /\ (vpc[c] = "done" /\ InLog(c, "engine") /\ engineExc[c] = "none"
                /\ OutputFile(c) \notin disk) =>
              outcome[c] = "ConversionError"

\* The engine ran and returned without raising, wrote nothing, and the call
\* ended with the ConversionError raised by the output check.
C12_Witness ==
    /\ vpc[0] = "done"
    /\ audio[0].engine = "no_output"
    /\ InLog(0, "engine")
    /\ engineExc[0] = "none"
    /\ OutputFile(0) \notin disk
    /\ raised[0] = "ConversionError"
    /\ outcome[0] = "ConversionError"

C14_ReferenceBufferUntouched ==
    /\ [][bpc = "gather" => reference_data' = reference_data]_vars
    /\ [](bpc \in {"gather", "returned"} => reference_data \in BatchReferenceDurations)

\* Two jobs are inside the engine call at the same time, each having written
\* the shared buffer to its own temp reference file.
C14_Witness ==
    /\ bpc = "gather"
    /\ reference_data \in BatchReferenceDurations
    /\ \E i, j \in Jobs :
          /\ i # j
          /\ jpc[i] = "convert" /\ TempRef(i) \in disk
          /\ jpc[j] = "convert" /\ TempRef(j) \in disk

\* C15: for every input longer than 8s, the buffer that leaves the
\* conditional-trim step of optimize_for_openvoice is at least 3.0s long: it
\* is a trim result of at least 3.0s or the original buffer, and when the
\* top_db=30 trim is below 4s and the top_db=40 retry is still below 3s it
\* is the original buffer.
C15_TrimNeverBelowThreeSeconds ==
    (aop = "optimize" /\ ain.len > Samples(80, ain.sr)) =>
        /\ aout.trimmed >= Samples(30, ain.sr)
        /\ aout.trimmed \in {ain.t30, ain.t40, ain.len}
        /\ (ain.t30 < Samples(40, ain.sr) /\ ain.t40 < Samples(30, ain.sr)) =>
              aout.trimmed = ain.len

\* A 10s buffer whose top_db=30 trim gave 2s and whose top_db=40 retry was
\* still below 3s left the step untrimmed.
C15_Witness ==
    /\ aop = "optimize"
    /\ ain.len = 10 * ain.sr
    /\ ain.t30 = 2 * ain.sr
    /\ ain.t40 < 3 * ain.sr
    /\ aout.trimmed = ain.len

\* C16: for every non-empty buffer, of any length and sample rate,
\* optimize_for_openvoice returns without raising, and the buffer it returns
\* lasts at least the 6.0s engine minimum.
C16_OptimizeReturnsEngineMinimum ==
    (aop = "optimize" /\ ain.len > 0) =>
        /\ aout.raises = "none"
        /\ aout.len >= Samples(60, ain.sr)

\* C17: on every path of normalize_loudness the returned buffer has a peak
\* absolute amplitude of at most 10^(peak_limit_db/20).
C17_PeakWithinLimit ==
    aop = "normalize_loudness" => aout.peak <= PEAK_LIMIT_LINEAR

\* C18: whenever the voice-activity computation raises, either analyzer
\* returns the single segment (0, duration) instead of raising, so that the
\* voice duration it reports equals the total duration.
C18_AnalyzerFailsOpen ==
    (aop \in {"converter_analyze", "processor_analyze"} /\ ain.vad_raises) =>
        /\ aout.raises = "none"
        /\ aout.segments = << <<0, ain.len>> >>
        /\ SegmentsDuration(aout.segments) = ain.len

\* C19: when the engine is invoked for a single-conversion request, a
\* reference whose voice content is below the floor was extended by
\* repeating its signal until the voice content reached the floor, and no
\* silence was appended to it.  The floor is taken as low as the code has
\* one for references, the 0.5s of the validation.
C19_ShortReferenceIsRepeated ==
    (InLog(0, "engine") /\ ref_prepared.voice < MIN_REFERENCE_DURATION) =>
        /\ ref_prepared.silence = 0
        /\ ref_prepared.voice + ref_prepared.repeated >= MIN_REFERENCE_DURATION

\* The duration floor an audio falls below, in the order of the checks.
FailedFloor(a) ==
    IF a.inDur < MIN_DURATION THEN [measured |-> a.inDur, minimum |-> MIN_DURATION]
    ELSE IF VoiceDuration(a) < MIN_VOICE_DURATION
        THEN [measured |-> VoiceDuration(a), minimum |-> MIN_VOICE_DURATION]
    ELSE [measured |-> a.refDur, minimum |-> MIN_REFERENCE_DURATION]

\* C20: when convert_voice fails because one of the three duration-floor
\* checks raised (input too short, insufficient voice content, reference too
\* short), the message of its ConversionError states the measured value and
\* the required minimum of the check that failed.
C20_FloorMessageStatesValues ==
    \A c \in Callers :
        (/\ vpc[c] = "done"
         /\ log[c] # <<>>
         /\ log[c][Len(log[c])] = "validate"
         /\ outcome[c] = "ConversionError"
         /\ librosa_installed
         /\ LibrosaValidation(audio[c]) = "ConversionError") =>
            /\ Stated(FailedFloor(audio[c]).measured)
                  \in ValidationFailureMessage(librosa_installed, audio[c])
            /\ Stated(FailedFloor(audio[c]).minimum)
                  \in ValidationFailureMessage(librosa_installed, audio[c])

\* C21: pad_audio_to_minimum returns a buffer at least as long as its input,
\* whose prefix is the input and whose appended samples are all zero; it
\* returns the input unchanged when the input already lasts min_duration, so
\* that padding its result once more changes nothing; trim_silence returns
\* a buffer no longer than its input.
C21_PadTwiceEqualsPadOnce ==
    /\ aop = "pad" =>
          /\ Len(aout.samples) >= Len(ain.samples)
          /\ SubSeq(aout.samples, 1, Len(ain.samples)) = ain.samples
          /\ \A i \in (Len(ain.samples) + 1)..Len(aout.samples) : aout.samples[i] = 0
          /\ (Len(ain.samples) >= Samples(ain.min, ain.sr) => aout.samples = ain.samples)
          /\ aout.again = aout.samples
    /\ aop = "trim" => Len(aout.samples) <= Len(ain.samples)

\* C22: ensure_consistent_format is idempotent at a fixed target rate: fed
\* its own output with the rate it returned and the same target, it returns
\* the same buffer and rate; its output is single-channel and the rate it
\* returns is the target rate.
C22_FormatIdempotent ==
    (aop = "ensure_format" /\ aout.raises = "none") =>
        /\ aout.fmt2 = aout.fmt
        /\ aout.rate2 = aout.rate
        /\ aout.fmt.channels = 1
        /\ aout.rate = ain.target

\* A stereo float64 buffer at another rate was averaged, resampled and
\* converted, and the second application left it as it was.
C22_Witness ==
    /\ aop = "ensure_format"
    /\ aout.raises = "none"
    /\ ain.fmt.channels = 2
    /\ ain.fmt.dtype = "float64"
    /\ ain.rate # ain.target
    /\ Len(aout.fmt.hist) = 3
    /\ aout.fmt2 = aout.fmt

\* A file the boundary has to refuse: not an audio content type, or larger
\* than MAX_FILE_SIZE.
OutOfContract(f) == ~f.audio \/ f.size > MAX_FILE_SIZE

\* C23: at every conversion entry point a request with a file of non-audio
\* content type or of a size above MAX_FILE_SIZE - the reference or any
\* input file, each file of a batch included - is rejected with
\* FileValidationError before any file is read or decoded and before any
\* database record is written.
C23_BoundaryRejectsBadFiles ==
    (/\ endpoint # "none"
     /\ \/ OutOfContract(request.reference)
        \/ \E i \in 1..Len(request.inputs) : OutOfContract(request.inputs[i])) =>
        /\ response.raises = "FileValidationError"
        /\ response.steps = <<>>

\* C24: for every integer max_concurrent the endpoint passes through, once
\* the reference is loaded every job is eventually admitted through the
\* gate and process_batch_conversion eventually returns a list with one
\* result per input file (every engine call terminating).
C24_BatchEventuallyReturns ==
    (bpc = "ref_loaded") ~>
        (/\ bpc = "returned"
         /\ Len(processed_results) = NumFiles
         /\ \A i \in Jobs : jpc[i] = "done")

\* C25: every job gives its permit back on every exit path, success or
\* failure: the free permits and the jobs holding one always add up to
\* max_concurrent, and when process_batch_conversion returns, all
\* max_concurrent permits are free and no job holds or waits for one.
C25_PermitsAlwaysReturned ==
    /\ bpc \in {"gather", "returned"} =>
          /\ sem >= 0
          /\ sem + Cardinality(InFlight) = max_concurrent
    /\ bpc = "returned" =>
          /\ sem = max_concurrent
          /\ waiters = <<>>
          /\ \A i \in Jobs : jpc[i] = "done"

\* A batch gated to one job at a time returned after a job that failed
\* before convert_voice, a job whose conversion failed and a job that
\* completed, with its one permit free again.
C25_Witness ==
    /\ bpc = "returned"
    /\ max_concurrent = 1
    /\ sem = 1
    /\ \E i, j, k \in Jobs :
          /\ jfault[i] \in JobFaults
          /\ jfault[j] = "convert"
          /\ jres[k] = CompletedResult(k)

\* The calls of trim_silence among the calls optimize_for_openvoice made.
TrimsOf(calls) == SelectSeq(calls, LAMBDA c : c[1] = "trim_silence")
CallsOf(calls, name) == SelectSeq(calls, LAMBDA c : c[1] = name)

\* C26: optimize_for_openvoice calls trim_silence at most twice per buffer,
\* first with top_db=30 and a second time with top_db=40 only if the first
\* result is shorter than 4.0s; it uses the original buffer if the latest
\* result is shorter than 3.0s; for inputs of at most 8.0s trim_silence is
\* never called; and no other step of the function is made more than once.
C26_TrimRetriedAtMostOnce ==
    aop = "optimize" =>
        LET trims == TrimsOf(aout.calls)
            latest == IF Len(trims) = 2 THEN ain.t40 ELSE ain.t30
        IN /\ Len(trims) <= 2
           /\ (ain.len <= 8 * ain.sr => trims = <<>>)
           /\ (ain.len > 8 * ain.sr =>
                  /\ Len(trims) >= 1
                  /\ trims[1] = <<"trim_silence", 30>>
                  /\ (Len(trims) = 2 <=> ain.t30 < 4 * ain.sr)
                  /\ (Len(trims) = 2 => trims[2] = <<"trim_silence", 40>>)
                  /\ (latest < 3 * ain.sr => aout.trimmed = ain.len)
                  /\ (latest >= 3 * ain.sr => aout.trimmed = latest))
           /\ Len(CallsOf(aout.calls, "apply_fade")) <= 1
           /\ Len(CallsOf(aout.calls, "pad_audio_to_minimum")) <= 1

\* A 10s buffer whose first trim kept 3s was trimmed a second time at
\* 40 dB, and the 4s that trim kept were used.
C26_Witness ==
    /\ aop = "optimize"
    /\ ain.len = 10 * ain.sr
    /\ ain.t30 = 3 * ain.sr
    /\ ain.t40 = 4 * ain.sr
    /\ TrimsOf(aout.calls) = << <<"trim_silence", 30>>, <<"trim_silence", 40>> >>
    /\ aout.trimmed = ain.t40

\* The place of a step in the order resample, loudness-normalize, format
\* coercion, conditional trim, fade, pad.
StepRank(step) ==
    CASE step = "resample_audio" -> 1
      [] step = "normalize_loudness" -> 2
      [] step = "ensure_consistent_format" -> 3
      [] step = "trim_silence" -> 4
      [] step = "apply_fade" -> 5
      [] step = "pad_audio_to_minimum" -> 6

InFixedOrder(steps) ==
    /\ \A k \in 1..Len(steps) - 1 : StepRank(steps[k].step) < StepRank(steps[k + 1].step)
    /\ steps # <<>> => steps[1].takes = 0
    /\ \A k \in 1..Len(steps) - 1 : steps[k + 1].takes = steps[k].gives
    /\ \A k \in 1..Len(steps) :
          steps[k].step = "normalize_loudness" => steps[k].rate = pipeline.target

\* C27: in the single-conversion endpoint the input and the reference each
\* pass through the steps in the fixed order resample, loudness-normalize,
\* format coercion, conditional trim, fade, pad, every step taking the
\* buffer the previous step returned, and loudness normalization is only
\* ever applied to a buffer at the target rate.
C27_PipelineOrderFixed ==
    /\ InFixedOrder(pipeline.input)
    /\ InFixedOrder(pipeline.reference)

\* An input decoded at another rate went through all six steps, its
\* loudness normalized after the resampling.
C27_Witness ==
    /\ spc = "save"
    /\ Len(pipeline.input) = 6
    /\ pipeline.input[1].step = "resample_audio"
    /\ pipeline.input[1].rate # pipeline.target
    /\ pipeline.input[2].step = "normalize_loudness"
    /\ pipeline.input[4].step = "trim_silence"
    /\ Len(pipeline.reference) >= 3

\* C28: every pipeline stage leaves the buffer it was given unchanged:
\* after pad_audio_to_minimum, trim_silence, apply_fade or
\* optimize_for_openvoice returns, the caller's array holds the samples it
\* held before the call, also for inputs of at most 8s, which are not
\* trimmed.
C28_StagesLeaveCallerBuffer ==
    (aop \in {"pad", "trim", "fade", "optimize_samples"} /\ aout.raises = "none") =>
        aout.caller = ain.samples

\* The maximal runs of consecutive voiced frames of a pattern, as pairs of
\* 0-based frame indexes.
MaximalRuns(frames) ==
    { r \in (0..Len(frames) - 1) \X (0..Len(frames) - 1) :
        /\ r[1] <= r[2]
        /\ \A i \in r[1]..r[2] : frames[i + 1]
        /\ (r[1] > 0 => ~frames[r[1]])
        /\ (r[2] < Len(frames) - 1 => ~frames[r[2] + 2]) }

\* C29: for any pattern of voiced frames the analyzer returns exactly the
\* maximal runs of consecutive voiced frames whose span, the time of the
\* last frame minus the time of the first, exceeds 0.1s, in increasing
\* time order and pairwise disjoint; every segment ends after it starts
\* and lies inside [0, duration], so the voice duration never exceeds the
\* total duration.
C29_SegmentsAreLongMaximalRuns ==
    aop = "voice_segments" =>
        LET segs == aout.segments
            long == { r \in MaximalRuns(ain.frames) :
                        (r[2] - r[1]) * HOP_LENGTH * 10 > ain.sr }
        IN /\ { segs[k] : k \in 1..Len(segs) } =
                 { <<r[1] * HOP_LENGTH, r[2] * HOP_LENGTH>> : r \in long }
           /\ Len(segs) = Cardinality(long)
           /\ \A k \in 1..Len(segs) - 1 : segs[k][2] < segs[k + 1][1]
           /\ \A k \in 1..Len(segs) :
                 /\ segs[k][2] > segs[k][1]
                 /\ segs[k][1] >= 0
                 /\ segs[k][2] <= ain.len
           /\ SegmentsDuration(segs) <= ain.len

\* At 8000 Hz, where 0.1s is more than one frame step and less than two, a
\* pattern with runs of one, three and two voiced frames gave the run of
\* three alone.
C29_Witness ==
    /\ aop = "voice_segments"
    /\ ain.sr = 8000
    /\ ain.frames = <<TRUE, FALSE, TRUE, TRUE, TRUE, FALSE, TRUE, TRUE>>
    /\ aout.segments = << <<2 * HOP_LENGTH, 4 * HOP_LENGTH>> >>

\* The calls waiting in the work queue of the pool.
Queued == { execQueue[k] : k \in 1..Len(execQueue) }

\* C30: the engine call runs only on a worker of the VoiceConverter's pool,
\* after having been submitted to it, never in the coroutine that drives
\* the request; at most 2 engine calls run at the same time, whatever
\* max_concurrent is, and the other submitted calls wait in the pool's
\* queue, not started, until a worker takes them.
C30_EngineOnlyOnPoolWorkers ==
    /\ Cardinality(running) <= 2
    /\ \A c \in Callers :
          /\ vpc[c] = "running" <=> c \in running
          /\ vpc[c] = "queued" <=> c \in Queued
          /\ c \in Queued => (c \notin running /\ ~InLog(c, "engine"))
          /\ InLog(c, "engine") =>
                /\ Before(c, "submit", "engine")
                /\ (c \in running \/ vpc[c] \in {"engine_done", "done"})

\* With the gate admitting three jobs, two engine calls run on the workers
\* while the third, submitted, waits in the queue.
C30_Witness ==
    /\ max_concurrent = 3
    /\ Cardinality(running) = 2
    /\ Len(execQueue) = 1
    /\ \A c \in Queued : vpc[c] = "queued" /\ ~InLog(c, "engine")

====
